---- MODULE Spec2Model ----
(***************************************************************************)
(* Board, move generation, castling and notation of chess-vision-trainer   *)
(* (src/src/board.rs), its Game (src/src/game.rs) and the loop of its      *)
(* Trainer (src/src/trainer.rs).  A Bitboard is the set of the squares     *)
(* whose bit is set; a square is its bit index rank*8 + file.              *)
(***************************************************************************)
EXTENDS Integers, Sequences, FiniteSets, TLC

VARIABLES board, steps, ret, calculator, game, trainer

vars == <<board, steps, ret, calculator, game, trainer>>

-----------------------------------------------------------------------------
(* Bounds of the exploration *)

\* the number of mutating calls (add, transform, make_move) of a behaviour
MaxSteps == 4

\* a read-only call is made on the boards at most this many mutating calls deep
MaxQuerySteps == 2

\* the longest candidate path that ShortestPathCalculator still extends
MaxPathLen == 3

-----------------------------------------------------------------------------
(* Coordinates: File, Rank, Square, Direction *)

Files == 0..7
Ranks == 0..7

Square(file, rank) == rank * 8 + file

Squares == 0..63

FileOf(s) == s % 8
RankOf(s) == s \div 8

NoSquare == 0 - 1

NoMove == <<>>

Move(from, to) == <<from, to>>

White == "White"
Black == "Black"
Sides == {White, Black}

Pawn == "Pawn"
Knight == "Knight"
Bishop == "Bishop"
Rook == "Rook"
Queen == "Queen"
King == "King"
Pieces == {Pawn, Knight, Bishop, Rook, Queen, King}

Kingside == "Kingside"
Queenside == "Queenside"

Side_get_opponent(side) == IF side = White THEN Black ELSE White

Directions == {"Up", "Down", "Left", "Right", "UpLeft", "UpRight", "DownLeft", "DownRight"}

Direction_diagonals == {"UpLeft", "UpRight", "DownLeft", "DownRight"}

Direction_knight_moves ==
    { <<"Up", "UpLeft">>, <<"Up", "UpRight">>, <<"Right", "UpRight">>, <<"Right", "DownRight">>,
      <<"Down", "DownRight">>, <<"Down", "DownLeft">>, <<"Left", "DownLeft">>, <<"Left", "UpLeft">> }

Direction_get_forward(side) == IF side = White THEN "Up" ELSE "Down"

Direction_get_backward(side) == IF side = White THEN "Down" ELSE "Up"

Direction_get_forward_diagonals(side) ==
    IF side = White THEN <<"UpLeft", "UpRight">> ELSE <<"DownLeft", "DownRight">>

\* File::previous / File::next and Rank::previous / Rank::next: None past the edge
File_previous(f) == IF f = 0 THEN NoSquare ELSE f - 1
File_next(f) == IF f = 7 THEN NoSquare ELSE f + 1
Rank_previous(r) == IF r = 0 THEN NoSquare ELSE r - 1
Rank_next(r) == IF r = 7 THEN NoSquare ELSE r + 1

Rank_distance(source, destination) ==
    IF source >= destination THEN source - destination ELSE destination - source

File_distance(from, to) == IF from >= to THEN from - to ELSE to - from

Rank_first_pawn_move(side) == IF side = White THEN 1 ELSE 6

Square_get_adjacent(s, d) ==
    LET file == FileOf(s)
        rank == RankOf(s)
        f == CASE d \in {"Left", "UpLeft", "DownLeft"} -> File_previous(file)
               [] d \in {"Right", "UpRight", "DownRight"} -> File_next(file)
               [] OTHER -> file
        r == CASE d \in {"Up", "UpLeft", "UpRight"} -> Rank_next(rank)
               [] d \in {"Down", "DownLeft", "DownRight"} -> Rank_previous(rank)
               [] OTHER -> rank
    IN  IF f = NoSquare \/ r = NoSquare THEN NoSquare ELSE Square(f, r)

Square_get_relative(s, directions) ==
    LET first == Square_get_adjacent(s, directions[1])
    IN  IF first = NoSquare THEN NoSquare ELSE Square_get_adjacent(first, directions[2])

-----------------------------------------------------------------------------
(* Bitboard *)

Bitboard_empty == {}

Bitboard_rank(rank) == {s \in Squares : RankOf(s) = rank}

Bitboard_file(file) == {s \in Squares : FileOf(s) = file}

\* Bitboard::square is file(square.0) & rank(square.1); the 64 masks are tabulated once
SquareMask == [s \in Squares |-> Bitboard_file(FileOf(s)) \cap Bitboard_rank(RankOf(s))]

Bitboard_square(s) == SquareMask[s]

Bitboard_from_squares(squares) == UNION {Bitboard_square(s) : s \in squares}

Bitboard_get_inverse(bb) == Squares \ bb

Bitboard_has_pieces(bb) == bb # {}

\* (square(s) & bb) > 0: the bit of s is set
Bitboard_contains(bb, s) == s \in bb

\* Square::all: the squares file by file, and rank by rank within a file
Square_all == [i \in 1..64 |-> Square((i - 1) \div 8, (i - 1) % 8)]

\* Bitboard::to_squares walks the files and, within a file, the ranks
Bitboard_to_squares(bb) == SelectSeq(Square_all, LAMBDA s : Bitboard_contains(bb, s))

\* the caller guarantees that the source is occupied (the code panics otherwise)
Bitboard_transform(bb, m) == (bb \cap Bitboard_get_inverse(Bitboard_square(m[1]))) \cup Bitboard_square(m[2])

-----------------------------------------------------------------------------
(* Board *)

None == "None"

Board_empty ==
    [ white |-> {}, black |-> {}, pawns |-> {}, knights |-> {}, bishops |-> {},
      rooks |-> {}, queens |-> {}, kings |-> {},
      prior_move_white |-> None, prior_move_black |-> None,
      castling_rights_white_kingside |-> TRUE, castling_rights_white_queenside |-> TRUE,
      castling_rights_black_kingside |-> TRUE, castling_rights_black_queenside |-> TRUE ]

starting_position ==
    [ white |-> Bitboard_rank(0) \cup Bitboard_rank(1),
      black |-> Bitboard_rank(6) \cup Bitboard_rank(7),
      pawns |-> Bitboard_rank(1) \cup Bitboard_rank(6),
      kings |-> Bitboard_from_squares({Square(4, 0), Square(4, 7)}),
      queens |-> Bitboard_from_squares({Square(3, 0), Square(3, 7)}),
      rooks |-> Bitboard_from_squares({Square(0, 0), Square(7, 0), Square(0, 7), Square(7, 7)}),
      bishops |-> Bitboard_from_squares({Square(2, 0), Square(5, 0), Square(2, 7), Square(5, 7)}),
      knights |-> Bitboard_from_squares({Square(1, 0), Square(6, 0), Square(1, 7), Square(6, 7)}),
      prior_move_white |-> None, prior_move_black |-> None,
      castling_rights_white_kingside |-> TRUE, castling_rights_white_queenside |-> TRUE,
      castling_rights_black_kingside |-> TRUE, castling_rights_black_queenside |-> TRUE ]

pieces(b) == b.white \cup b.black

is_occupied(b, s) == Bitboard_contains(pieces(b), s)

get_side_bitboard(b, side) == IF side = White THEN b.white ELSE b.black

set_side_bitboard(b, side, bb) ==
    IF side = White THEN [b EXCEPT !.white = bb] ELSE [b EXCEPT !.black = bb]

get_pieces_bitboard(b, piece) ==
    CASE piece = Pawn -> b.pawns
      [] piece = Knight -> b.knights
      [] piece = Bishop -> b.bishops
      [] piece = Rook -> b.rooks
      [] piece = Queen -> b.queens
      [] piece = King -> b.kings

set_pieces_bitboard(b, piece, bb) ==
    CASE piece = Pawn -> [b EXCEPT !.pawns = bb]
      [] piece = Knight -> [b EXCEPT !.knights = bb]
      [] piece = Bishop -> [b EXCEPT !.bishops = bb]
      [] piece = Rook -> [b EXCEPT !.rooks = bb]
      [] piece = Queen -> [b EXCEPT !.queens = bb]
      [] piece = King -> [b EXCEPT !.kings = bb]

get_side_pieces_bitboard(b, side, piece) == get_side_bitboard(b, side) \cap get_pieces_bitboard(b, piece)

\* Board::get: None on an empty square, Some((side, piece)) on an occupied one,
\* and a panic when the occupied square has no side or no piece type
GetPanic == <<"panic">>

Board_get(b, s) ==
    IF ~is_occupied(b, s) THEN <<>>
    ELSE LET bb == Bitboard_square(s)
             side == IF Bitboard_has_pieces(b.white \cap bb) THEN White
                     ELSE IF Bitboard_has_pieces(b.black \cap bb) THEN Black
                     ELSE "panic"
             piece == IF Bitboard_has_pieces(b.pawns \cap bb) THEN Pawn
                      ELSE IF Bitboard_has_pieces(b.knights \cap bb) THEN Knight
                      ELSE IF Bitboard_has_pieces(b.bishops \cap bb) THEN Bishop
                      ELSE IF Bitboard_has_pieces(b.rooks \cap bb) THEN Rook
                      ELSE IF Bitboard_has_pieces(b.queens \cap bb) THEN Queen
                      ELSE IF Bitboard_has_pieces(b.kings \cap bb) THEN King
                      ELSE "panic"
             Some(sd, pc) == IF sd = "panic" \/ pc = "panic" THEN GetPanic ELSE <<sd, pc>>
         IN  Some(side, piece)

HasPiece(b, s) == Len(Board_get(b, s)) = 2

Board_add(b, side, piece, s) ==
    LET bb == Bitboard_square(s)
        withSide == set_side_bitboard(b, side, get_side_bitboard(b, side) \cup bb)
    IN  set_pieces_bitboard(withSide, piece, get_pieces_bitboard(withSide, piece) \cup bb)

Piece_all == <<Pawn, Knight, Bishop, Rook, Queen, King>>

\* a priviledge_piece that clears nothing
priviledge_piece_clearing_nothing(b, priviledged, to_overwrite) == b

priviledge_piece(b, priviledged, to_overwrite) ==
    IF priviledged = to_overwrite THEN b
    ELSE LET priviledged_bb == get_pieces_bitboard(b, priviledged)
             to_overwrite_bb == get_pieces_bitboard(b, to_overwrite)
         IN  set_pieces_bitboard(b, to_overwrite, to_overwrite_bb \cap Bitboard_get_inverse(priviledged_bb))

RECURSIVE PriviledgeFrom(_, _, _)
PriviledgeFrom(b, piece, i) ==
    IF i > Len(Piece_all) THEN b
    ELSE PriviledgeFrom(priviledge_piece(b, piece, Piece_all[i]), piece, i + 1)

\* a transform that forgets to resolve the capture
disambiguate_captures_skipped(b, side, piece) == b

disambiguate_captures(b, side, piece) ==
    LET side_bb == get_side_bitboard(b, side)
        opponent == Side_get_opponent(side)
        opponent_bb == get_side_bitboard(b, opponent)
        cleared == set_side_bitboard(b, opponent, opponent_bb \cap Bitboard_get_inverse(side_bb))
    IN  PriviledgeFrom(cleared, piece, 1)

\* a transform that revokes the mover's castling rights when a king leaves its square
Board_transform_revoking(b, m) ==
    LET Moved(side, piece) ==
            disambiguate_captures(
                set_pieces_bitboard(
                    set_side_bitboard(b, side, Bitboard_transform(get_side_bitboard(b, side), m)),
                    piece, Bitboard_transform(get_pieces_bitboard(b, piece), m)),
                side, piece)
        Revoked(resolved, side, piece) ==
            IF piece = King /\ side = White
            THEN [resolved EXCEPT !.castling_rights_white_kingside = FALSE, !.castling_rights_white_queenside = FALSE]
            ELSE IF piece = King
            THEN [resolved EXCEPT !.castling_rights_black_kingside = FALSE, !.castling_rights_black_queenside = FALSE]
            ELSE resolved
        Of(sp) == Revoked(Moved(sp[1], sp[2]), sp[1], sp[2])
    IN  Of(Board_get(b, m[1]))

\* Board::transform; the caller guarantees a piece on the source (the code panics otherwise)
Board_transform(b, m) ==
    LET Moved(side, piece) ==
            disambiguate_captures(
                set_pieces_bitboard(
                    set_side_bitboard(b, side, Bitboard_transform(get_side_bitboard(b, side), m)),
                    piece, Bitboard_transform(get_pieces_bitboard(b, piece), m)),
                side, piece)
        Of(sp) == Moved(sp[1], sp[2])
    IN  Of(Board_get(b, m[1]))

get_transformation(b, m) == Board_transform(b, m)

-----------------------------------------------------------------------------
(* Vision *)

RECURSIVE get_vision_directional(_, _, _)
get_vision_directional(b, s, d) ==
    LET Extend(test_square) ==
            IF test_square = NoSquare THEN Bitboard_empty
            ELSE IF is_occupied(b, test_square) THEN Bitboard_square(test_square)
            ELSE Bitboard_square(test_square) \cup get_vision_directional(b, test_square, d)
    IN  Extend(Square_get_adjacent(s, d))

\* a diagonal vision that leaves out the ray down and to the right
get_diagonal_vision_of_three_rays(b, s) ==
    get_vision_directional(b, s, "UpLeft") \cup get_vision_directional(b, s, "UpRight")
        \cup get_vision_directional(b, s, "DownLeft")

get_diagonal_vision(b, s) ==
    get_vision_directional(b, s, "UpLeft") \cup get_vision_directional(b, s, "UpRight")
        \cup get_vision_directional(b, s, "DownLeft") \cup get_vision_directional(b, s, "DownRight")

get_file_vision(b, s) == get_vision_directional(b, s, "Right") \cup get_vision_directional(b, s, "Left")

get_rank_vision(b, s) == get_vision_directional(b, s, "Up") \cup get_vision_directional(b, s, "Down")

get_lateral_vision(b, s) == get_file_vision(b, s) \cup get_rank_vision(b, s)

get_queen_vision(b, s) == get_diagonal_vision(b, s) \cup get_lateral_vision(b, s)

get_adjacents_from_directions(s, directions) ==
    {Square_get_adjacent(s, d) : d \in directions} \ {NoSquare}

\* the leaper patterns do not depend on the board: they are tabulated once per square
AdjacentVision == [s \in Squares |-> Bitboard_from_squares(get_adjacents_from_directions(s, Directions))]

KnightVision ==
    [s \in Squares |->
        Bitboard_from_squares({Square_get_relative(s, moves) : moves \in Direction_knight_moves} \ {NoSquare})]

get_adjacent_vision(s) == AdjacentVision[s]

get_knight_vision(s) == KnightVision[s]

get_immediately_diagonal_and_forward_vision(side, s) ==
    LET forward_diagonals == Direction_get_forward_diagonals(side)
    IN  Bitboard_from_squares(get_adjacents_from_directions(s, {forward_diagonals[1], forward_diagonals[2]}))

get_immediately_diagonal_and_backward_vision(side, s) ==
    LET backward_diagonals == Direction_get_forward_diagonals(Side_get_opponent(side))
    IN  Bitboard_from_squares(get_adjacents_from_directions(s, {backward_diagonals[1], backward_diagonals[2]}))

-----------------------------------------------------------------------------
(* Attack detection *)

is_attacking(b, attacker, s) ==
    LET OnDiagonals(diagonals) ==
            \/ Bitboard_has_pieces(diagonals \cap get_side_pieces_bitboard(b, attacker, Bishop))
            \/ Bitboard_has_pieces(diagonals \cap get_side_pieces_bitboard(b, attacker, Queen))
        OnLaterals(laterals) ==
            \/ Bitboard_has_pieces(laterals \cap get_side_pieces_bitboard(b, attacker, Rook))
            \/ Bitboard_has_pieces(laterals \cap get_side_pieces_bitboard(b, attacker, Queen))
    IN  \/ Bitboard_has_pieces(get_immediately_diagonal_and_backward_vision(attacker, s)
                                 \cap get_side_pieces_bitboard(b, attacker, Pawn))
        \/ Bitboard_has_pieces(get_adjacent_vision(s) \cap get_side_pieces_bitboard(b, attacker, King))
        \/ Bitboard_has_pieces(get_knight_vision(s) \cap get_side_pieces_bitboard(b, attacker, Knight))
        \/ OnDiagonals(get_diagonal_vision(b, s))
        \/ OnLaterals(get_lateral_vision(b, s))

\* a has_vision whose pawns look backward
has_vision_with_pawns_looking_backward(b, from, to) ==
    LET Of(sp) ==
            IF Len(sp) = 0 THEN FALSE
            ELSE CASE sp[2] = King -> Bitboard_contains(get_adjacent_vision(from), to)
                   [] sp[2] = Queen -> Bitboard_contains(get_queen_vision(b, from), to)
                   [] sp[2] = Rook -> Bitboard_contains(get_lateral_vision(b, from), to)
                   [] sp[2] = Bishop -> Bitboard_contains(get_diagonal_vision(b, from), to)
                   [] sp[2] = Knight -> Bitboard_contains(get_knight_vision(from), to)
                   [] sp[2] = Pawn ->
                          Bitboard_contains(get_immediately_diagonal_and_backward_vision(sp[1], from), to)
    IN  Of(Board_get(b, from))

\* Board::has_vision: the piece on from, if any, sees to
has_vision(b, from, to) ==
    LET Of(sp) ==
            IF Len(sp) = 0 THEN FALSE
            ELSE CASE sp[2] = King -> Bitboard_contains(get_adjacent_vision(from), to)
                   [] sp[2] = Queen -> Bitboard_contains(get_queen_vision(b, from), to)
                   [] sp[2] = Rook -> Bitboard_contains(get_lateral_vision(b, from), to)
                   [] sp[2] = Bishop -> Bitboard_contains(get_diagonal_vision(b, from), to)
                   [] sp[2] = Knight -> Bitboard_contains(get_knight_vision(from), to)
                   [] sp[2] = Pawn ->
                          Bitboard_contains(get_immediately_diagonal_and_forward_vision(sp[1], from), to)
    IN  Of(Board_get(b, from))

get_n_defenders(b, side, s) ==
    Cardinality({piece \in get_side_bitboard(b, side) : has_vision(b, piece, s)})

get_n_attackers(b, side, s) ==
    Cardinality({piece \in get_side_bitboard(b, Side_get_opponent(side)) : has_vision(b, piece, s)})

is_in_check(b, side) ==
    \E k \in get_side_pieces_bitboard(b, side, King) : is_attacking(b, Side_get_opponent(side), k)

-----------------------------------------------------------------------------
(* Castle *)

Castle_get_rank(side) == IF side = White THEN 0 ELSE 7

Castle_get_king_destination(castle, side) ==
    Square(IF castle = Kingside THEN 6 ELSE 2, Castle_get_rank(side))

Castle_get_rook_source(castle, side) ==
    Square(IF castle = Kingside THEN 7 ELSE 0, Castle_get_rank(side))

Castle_get_rook_destination(castle, side) ==
    Square(IF castle = Kingside THEN 5 ELSE 3, Castle_get_rank(side))

Castle_get_king_move(castle, side) ==
    Move(Square(4, Castle_get_rank(side)), Castle_get_king_destination(castle, side))

Castle_get_rook_move(castle, side) ==
    Move(Castle_get_rook_source(castle, side), Castle_get_rook_destination(castle, side))

get_castles(b, side) ==
    LET rank == Castle_get_rank(side)
        is_king_on_e == Bitboard_has_pieces(get_side_pieces_bitboard(b, side, King) \cap Bitboard_file(4))
        rooks == get_side_pieces_bitboard(b, side, Rook)
        is_kingside_rook_in_place == Bitboard_has_pieces(rooks \cap Bitboard_square(Square(7, rank)))
        is_queenside_rook_in_place == Bitboard_has_pieces(rooks \cap Bitboard_square(Square(0, rank)))
        is_kingside_blocked ==
            Bitboard_has_pieces(Bitboard_from_squares({Square(5, rank), Square(6, rank)}) \cap pieces(b))
        is_queenside_blocked ==
            Bitboard_has_pieces(Bitboard_from_squares({Square(1, rank), Square(2, rank), Square(3, rank)}) \cap pieces(b))
        opponent == Side_get_opponent(side)
        is_kingside_attacked ==
            \E x \in {Square(4, rank), Square(5, rank), Square(6, rank)} : is_attacking(b, opponent, x)
        is_queenside_attacked ==
            \E x \in {Square(2, rank), Square(3, rank), Square(4, rank)} : is_attacking(b, opponent, x)
        castling_rights_kingside ==
            IF side = White THEN b.castling_rights_white_kingside ELSE b.castling_rights_black_kingside
        castling_rights_queenside ==
            IF side = White THEN b.castling_rights_white_queenside ELSE b.castling_rights_black_queenside
        can_castle_kingside ==
            is_kingside_rook_in_place /\ ~is_kingside_blocked /\ ~is_kingside_attacked /\ castling_rights_kingside
        can_castle_queenside ==
            is_queenside_rook_in_place /\ ~is_queenside_blocked /\ ~is_queenside_attacked /\ castling_rights_queenside
    IN  IF ~is_king_on_e THEN {}
        ELSE (IF can_castle_kingside THEN {Kingside} ELSE {}) \cup (IF can_castle_queenside THEN {Queenside} ELSE {})

-----------------------------------------------------------------------------
(* Move generation and the legality filter *)

get_en_passant_takes(b, side, s) == Bitboard_empty

\* diagonal pawn moves that do not ask for an opponent on the destination
get_diagonal_pawn_takes_onto_any(b, side, s) ==
    LET directions == Direction_get_forward_diagonals(side)
        potential_captures ==
            Bitboard_from_squares({Square_get_adjacent(s, directions[1]), Square_get_adjacent(s, directions[2])} \ {NoSquare})
    IN  potential_captures \cap Bitboard_get_inverse(get_side_bitboard(b, side))

get_diagonal_pawn_takes(b, side, s) ==
    LET directions == Direction_get_forward_diagonals(side)
        potential_captures ==
            Bitboard_from_squares({Square_get_adjacent(s, directions[1]), Square_get_adjacent(s, directions[2])} \ {NoSquare})
    IN  potential_captures \cap get_side_bitboard(b, Side_get_opponent(side))

\* forward moves whose second step does not ask whether the first was possible
get_forward_pawn_moves_jumping(b, side, s) ==
    LET direction == Direction_get_forward(side)
        is_first_pawn_move == RankOf(s) = Rank_first_pawn_move(side)
        Two(one) == IF one = NoSquare THEN NoSquare ELSE Square_get_adjacent(one, direction)
        Extended(to_return, two) ==
            IF is_first_pawn_move /\ two # NoSquare /\ ~is_occupied(b, two)
            THEN to_return \cup Bitboard_square(two)
            ELSE to_return
        From(one) ==
            Extended(IF one = NoSquare THEN Bitboard_empty
                     ELSE IF is_occupied(b, one) THEN Bitboard_empty ELSE Bitboard_square(one),
                     Two(one))
    IN  From(Square_get_adjacent(s, direction))

\* the two-step lookup past the board edge is the code's panic: no square is added there
get_forward_pawn_moves(b, side, s) ==
    LET direction == Direction_get_forward(side)
        is_first_pawn_move == RankOf(s) = Rank_first_pawn_move(side)
        Two(one) == IF one = NoSquare THEN NoSquare ELSE Square_get_adjacent(one, direction)
        Extended(to_return, two) ==
            IF is_first_pawn_move /\ Bitboard_has_pieces(to_return) /\ two # NoSquare /\ ~is_occupied(b, two)
            THEN to_return \cup Bitboard_square(two)
            ELSE to_return
        From(one) ==
            Extended(IF one = NoSquare THEN Bitboard_empty
                     ELSE IF is_occupied(b, one) THEN Bitboard_empty ELSE Bitboard_square(one),
                     Two(one))
    IN  From(Square_get_adjacent(s, direction))

get_adjacent_moves(b, side, s) == get_adjacent_vision(s) \cap Bitboard_get_inverse(get_side_bitboard(b, side))

get_knight_moves(b, side, s) == get_knight_vision(s) \cap Bitboard_get_inverse(get_side_bitboard(b, side))

get_diagonal_moves(b, side, s) == get_diagonal_vision(b, s) \cap Bitboard_get_inverse(get_side_bitboard(b, side))

\* lateral moves that keep the squares of the mover's own side
get_lateral_moves_onto_own(b, side, s) == get_lateral_vision(b, s)

get_lateral_moves(b, side, s) == get_lateral_vision(b, s) \cap Bitboard_get_inverse(get_side_bitboard(b, side))

\* a filter that keeps every destination
get_moves_not_into_check_unfiltered(b, source, bitboard) ==
    LET Moves(destinations) == [i \in 1..Len(destinations) |-> Move(source, destinations[i])]
    IN  Moves(Bitboard_to_squares(bitboard))

\* the Vec<Move> of the destinations, in to_squares order, that do not leave the mover in check
get_moves_not_into_check(b, source, bitboard) ==
    LET side == Board_get(b, source)[1]
        safe == {d \in bitboard : ~is_in_check(get_transformation(b, Move(source, d)), side)}
        Moves(destinations) == [i \in 1..Len(destinations) |-> Move(source, destinations[i])]
    IN  Moves(Bitboard_to_squares(safe))

\* the pseudo-legal destinations of the piece on s, before the check filter
PseudoLegal(b, s) ==
    LET Of(side, piece) ==
            CASE piece = Pawn ->
                   get_en_passant_takes(b, side, s) \cup get_diagonal_pawn_takes(b, side, s)
                       \cup get_forward_pawn_moves(b, side, s)
              [] piece = Knight -> get_knight_moves(b, side, s)
              [] piece = Bishop -> get_diagonal_moves(b, side, s)
              [] piece = Rook -> get_lateral_moves(b, side, s)
              [] piece = Queen -> get_diagonal_moves(b, side, s) \cup get_lateral_moves(b, side, s)
              [] piece = King ->
                   get_adjacent_moves(b, side, s)
                       \cup Bitboard_from_squares({Castle_get_king_destination(c, side) : c \in get_castles(b, side)})
        OfSome(sp) == Of(sp[1], sp[2])
    IN  OfSome(Board_get(b, s))

\* Board::get_legal_moves; the caller guarantees a piece on s (the code panics otherwise)
get_legal_moves(b, s) == get_moves_not_into_check(b, s, PseudoLegal(b, s))

SeqToSet(seq) == {seq[i] : i \in DOMAIN seq}

is_legal_move(b, m) == HasPiece(b, m[1]) /\ m \in SeqToSet(get_legal_moves(b, m[1]))

\* a make_move that relocates the king only
force_make_move_king_only(b, m) == Board_transform(b, m)

force_make_move(b, m) ==
    LET Of(side, piece) ==
            IF piece = King /\ m = Castle_get_king_move(Kingside, side)
            THEN Board_transform(Board_transform(b, m), Castle_get_rook_move(Kingside, side))
            ELSE IF piece = King /\ m = Castle_get_king_move(Queenside, side)
            THEN Board_transform(Board_transform(b, m), Castle_get_rook_move(Queenside, side))
            ELSE Board_transform(b, m)
        OfSome(sp) == Of(sp[1], sp[2])
    IN  OfSome(Board_get(b, m[1]))

\* a make_move that turns a pawn arriving on its last rank into a queen
make_move_promoting(b, m) ==
    LET Of(sp, moved) ==
            IF sp[2] = Pawn /\ RankOf(m[2]) = (IF sp[1] = White THEN 7 ELSE 0)
            THEN [moved EXCEPT !.pawns = moved.pawns \ {m[2]}, !.queens = moved.queens \cup {m[2]}]
            ELSE moved
    IN  Of(Board_get(b, m[1]), force_make_move(b, m))

\* Board::make_move after its legality assertion has passed
make_move(b, m) == force_make_move(b, m)

get_legal_moves_for_side(b, side) ==
    LET Of(sources) == UNION {SeqToSet(get_legal_moves(b, sources[i])) : i \in 1..Len(sources)}
    IN  Of(Bitboard_to_squares(get_side_bitboard(b, side)))

is_capture(b, m) ==
    LET side == Board_get(b, m[1])[1]
        Takes(target) == Len(target) = 2 /\ target[1] = Side_get_opponent(side)
    IN  Takes(Board_get(b, m[2]))

get_checks(b, side) ==
    {m \in get_legal_moves_for_side(b, side) : is_in_check(get_transformation(b, m), Side_get_opponent(side))}

get_captures(b, side) == {m \in get_legal_moves_for_side(b, side) : is_capture(b, m)}

has_no_legal_moves(b, s) == Len(get_legal_moves(b, s)) = 0

\* a checkmate test that looks at the moves of every piece of the side
is_checkmated_by_all_pieces(b, side) == is_in_check(b, side) /\ get_legal_moves_for_side(b, side) = {}

\* Board::is_checkmated; the caller guarantees exactly one king of the side (the
\* assertion on kings.len() fails otherwise)
is_checkmated(b, side) ==
    LET Of(kings) == is_in_check(b, side) /\ has_no_legal_moves(b, kings[1])
    IN  Of(Bitboard_to_squares(get_side_pieces_bitboard(b, side, King)))

\* Board::is_stalemated, under the same assertion
is_stalemated(b, side) ==
    LET Of(kings) == (~is_in_check(b, side)) /\ has_no_legal_moves(b, kings[1])
    IN  Of(Bitboard_to_squares(get_side_pieces_bitboard(b, side, King)))

-----------------------------------------------------------------------------
(* Fen *)

\* Fen::get_castling: the letters of the rights still held, "-" when none is
Fen_get_castling(b) ==
    LET to_return ==
            (IF b.castling_rights_white_kingside THEN <<"K">> ELSE <<>>)
                \o (IF b.castling_rights_white_queenside THEN <<"Q">> ELSE <<>>)
                \o (IF b.castling_rights_black_kingside THEN <<"k">> ELSE <<>>)
                \o (IF b.castling_rights_black_queenside THEN <<"q">> ELSE <<>>)
    IN  IF Len(to_return) = 0 THEN <<"-">> ELSE to_return

-----------------------------------------------------------------------------
(* Notation: a string is the sequence of its characters *)

FileChars == <<"a", "b", "c", "d", "e", "f", "g", "h">>
RankChars == <<"1", "2", "3", "4", "5", "6", "7", "8">>

IsFileChar(c) == \E i \in 1..8 : FileChars[i] = c
IsRankChar(c) == \E i \in 1..8 : RankChars[i] = c

File_to_string(f) == FileChars[f + 1]
Rank_to_string(r) == RankChars[r + 1]

\* File::from_char and Rank::from_char on a valid character (any other one panics)
File_from_char(c) == (CHOOSE i \in 1..8 : FileChars[i] = c) - 1
Rank_from_char(c) == (CHOOSE i \in 1..8 : RankChars[i] = c) - 1

Piece_to_string(piece) ==
    CASE piece = Pawn -> "P"
      [] piece = Knight -> "N"
      [] piece = Bishop -> "B"
      [] piece = Rook -> "R"
      [] piece = Queen -> "Q"
      [] piece = King -> "K"

Piece_is_piece_char(c) == c \in {"P", "N", "B", "R", "Q", "K"}

\* Piece::from_char on a piece character (any other one panics)
Piece_from_char(c) ==
    CASE c = "P" -> Pawn
      [] c = "N" -> Knight
      [] c = "B" -> Bishop
      [] c = "R" -> Rook
      [] c = "Q" -> Queen
      [] c = "K" -> King

Square_to_string(s) == <<File_to_string(FileOf(s)), Rank_to_string(RankOf(s))>>

Square_from_string(str) == Square(File_from_char(str[1]), Rank_from_char(str[2]))

\* the character classes of the four regexes; the classes written [N,B,R,Q,K] and
\* [a-h,1-8] in the source contain the comma
PieceClass == {"N", ",", "B", "R", "Q", "K"}
FileOrRankClass == {FileChars[i] : i \in 1..8} \cup {RankChars[i] : i \in 1..8} \cup {","}

FORWARD_PAWN_MOVE(str) == Len(str) = 2 /\ IsFileChar(str[1]) /\ IsRankChar(str[2])

DISAMBIGUATED_PAWN_MOVE(str) ==
    Len(str) = 3 /\ IsFileChar(str[1]) /\ IsFileChar(str[2]) /\ IsRankChar(str[3])

PIECE_MOVE(str) == Len(str) = 3 /\ str[1] \in PieceClass /\ IsFileChar(str[2]) /\ IsRankChar(str[3])

DISAMBIGUATED_PIECE_MOVE(str) ==
    Len(str) = 4 /\ str[1] \in PieceClass /\ str[2] \in FileOrRankClass
        /\ IsFileChar(str[3]) /\ IsRankChar(str[4])

\* char::is_numeric on the characters of the model's alphabet
is_numeric(c) == c \in {"0", "1", "2", "3", "4", "5", "6", "7", "8", "9"}

\* Result<Move, String>, and the third outcome of a call: a panic
Ok(m) == [tag |-> "Ok", move |-> m]
Err == [tag |-> "Err", move |-> NoMove]
Fault == [tag |-> "Panic", move |-> NoMove]

\* the candidate sources of a non-pawn piece move, by vision from the destination
get_potential_sources(b, side, piece, destination) ==
    LET own == get_side_pieces_bitboard(b, side, piece)
        vision == CASE piece = Knight -> get_knight_vision(destination)
                    [] piece = Bishop -> get_diagonal_vision(b, destination)
                    [] piece = Rook -> get_lateral_vision(b, destination)
                    [] piece = Queen -> get_diagonal_vision(b, destination) \cup get_lateral_vision(b, destination)
                    [] piece = King -> get_adjacent_vision(destination)
    IN  vision \cap own

\* a resolution that refuses two candidates as well
get_unambiguous_source_refusing_two(potential_sources) ==
    IF Len(potential_sources) = 0 THEN NoSquare
    ELSE IF Len(potential_sources) > 1 THEN NoSquare
    ELSE potential_sources[1]

\* Ok(source) is the source square, Err is NoSquare
get_unambiguous_source_from_potential_sources(potential_sources) ==
    IF Len(potential_sources) = 0 THEN NoSquare
    ELSE IF Len(potential_sources) > 2 THEN NoSquare
    ELSE potential_sources[1]

get_unambiguous_piece_source(b, side, piece, destination) ==
    get_unambiguous_source_from_potential_sources(
        Bitboard_to_squares(get_potential_sources(b, side, piece, destination)))

get_piece_source_on_file(b, side, piece, destination, source_file) ==
    get_unambiguous_source_from_potential_sources(
        Bitboard_to_squares(get_potential_sources(b, side, piece, destination) \cap Bitboard_file(source_file)))

get_piece_source_on_rank(b, side, piece, destination, source_rank) ==
    get_unambiguous_source_from_potential_sources(
        Bitboard_to_squares(get_potential_sources(b, side, piece, destination) \cap Bitboard_rank(source_rank)))

\* Ok(source) is the source square, Err is NoSquare
get_pawn_move_from_square_in_front(b, side, destination) ==
    LET backwards == Direction_get_backward(side)
        one_back == Square_get_adjacent(destination, backwards)
        pawns == get_side_pieces_bitboard(b, side, Pawn)
    IN  IF one_back = NoSquare THEN NoSquare
        ELSE IF Bitboard_contains(pawns, one_back) THEN one_back
        ELSE LET two_back == Square_get_adjacent(one_back, backwards)
             IN  IF two_back = NoSquare THEN NoSquare
                 ELSE IF Bitboard_contains(pawns, two_back) THEN two_back
                 ELSE NoSquare

try_parse_move(b, side, str) ==
    LET Resolved(source, destination) == IF source = NoSquare THEN Err ELSE Ok(Move(source, destination))
        PawnCapture(source, destination) ==
            IF source = NoSquare THEN Err
            ELSE IF Rank_distance(RankOf(source), RankOf(destination)) \in {1, 2}
                 THEN Ok(Move(source, destination))
                 ELSE Fault
    IN  IF str = <<"O", "-", "O", "-", "O">>
        THEN IF Queenside \in get_castles(b, side) THEN Ok(Castle_get_king_move(Queenside, side)) ELSE Err
        ELSE IF str = <<"O", "-", "O">>
        THEN IF Kingside \in get_castles(b, side) THEN Ok(Castle_get_king_move(Kingside, side)) ELSE Err
        ELSE IF FORWARD_PAWN_MOVE(str)
        THEN LET destination == Square(File_from_char(str[1]), Rank_from_char(str[2]))
             IN  IF is_occupied(b, destination) THEN Err
                 ELSE Resolved(get_pawn_move_from_square_in_front(b, side, destination), destination)
        ELSE IF DISAMBIGUATED_PAWN_MOVE(str)
        THEN LET destination == Square(File_from_char(str[2]), Rank_from_char(str[3]))
                 source_file == File_from_char(str[1])
                 square_in_front == Square(source_file, RankOf(destination))
             IN  IF File_distance(source_file, FileOf(destination)) # 1 THEN Err
                 ELSE PawnCapture(get_pawn_move_from_square_in_front(b, side, square_in_front), destination)
        ELSE IF PIECE_MOVE(str)
        THEN IF ~Piece_is_piece_char(str[1]) THEN Fault
             ELSE LET destination == Square(File_from_char(str[2]), Rank_from_char(str[3]))
                      piece == Piece_from_char(str[1])
                  IN  IF Bitboard_has_pieces(get_side_bitboard(b, side) \cap Bitboard_square(destination)) THEN Err
                      ELSE Resolved(get_unambiguous_piece_source(b, side, piece, destination), destination)
        ELSE IF DISAMBIGUATED_PIECE_MOVE(str)
        THEN IF ~Piece_is_piece_char(str[1]) THEN Fault
             ELSE LET destination == Square(File_from_char(str[3]), Rank_from_char(str[4]))
                      piece == Piece_from_char(str[1])
                      source_file_or_rank == str[2]
                  IN  IF Bitboard_has_pieces(get_side_bitboard(b, side) \cap Bitboard_square(destination)) THEN Err
                      ELSE IF is_numeric(source_file_or_rank)
                      THEN IF ~IsRankChar(source_file_or_rank) THEN Fault
                           ELSE Resolved(get_piece_source_on_rank(b, side, piece, destination,
                                                                  Rank_from_char(source_file_or_rank)),
                                         destination)
                      ELSE IF ~IsFileChar(source_file_or_rank) THEN Fault
                           ELSE Resolved(get_piece_source_on_file(b, side, piece, destination,
                                                                  File_from_char(source_file_or_rank)),
                                         destination)
        ELSE Err

\* the String of get_move_string, or its panic
Printed(str) == [tag |-> "Ok", str |-> str]
PrintFault == [tag |-> "Panic", str |-> <<>>]

\* Board::get_move_string; the caller guarantees a piece on the source (the code panics otherwise)
get_move_string(b, m) ==
    LET source == m[1]
        destination == m[2]
        Disambiguated(piece, potential_sources, file, rank) ==
            IF Cardinality({i \in DOMAIN potential_sources : FileOf(potential_sources[i]) = file}) = 1
            THEN Printed(<<Piece_to_string(piece), File_to_string(file)>> \o Square_to_string(destination))
            ELSE IF Cardinality({i \in DOMAIN potential_sources : RankOf(potential_sources[i]) = rank}) = 1
            THEN Printed(<<Piece_to_string(piece), Rank_to_string(rank)>> \o Square_to_string(destination))
            ELSE PrintFault
        PieceMove(piece, potential_sources) ==
            IF Len(potential_sources) = 1
            THEN Printed(<<Piece_to_string(piece)>> \o Square_to_string(destination))
            ELSE IF Len(potential_sources) > 1
            THEN Disambiguated(piece, potential_sources,
                               FileOf(potential_sources[1]), RankOf(potential_sources[1]))
            ELSE PrintFault
        Of(side, piece) ==
            IF piece = Pawn
            THEN IF FileOf(source) = FileOf(destination)
                 THEN Printed(Square_to_string(destination))
                 ELSE Printed(<<File_to_string(FileOf(source))>> \o Square_to_string(destination))
            ELSE PieceMove(piece, Bitboard_to_squares(get_potential_sources(b, side, piece, destination)))
        OfSome(sp) == Of(sp[1], sp[2])
    IN  OfSome(Board_get(b, source))

-----------------------------------------------------------------------------
(* Fen *)

DigitChars == <<"0", "1", "2", "3", "4", "5", "6", "7", "8", "9">>

\* usize::to_string: the decimal digits, most significant first
RECURSIVE usize_to_string(_)
usize_to_string(n) ==
    IF n < 10 THEN <<DigitChars[n + 1]>>
    ELSE usize_to_string(n \div 10) \o <<DigitChars[(n % 10) + 1]>>

\* str::to_uppercase and str::to_lowercase on the one-letter strings of Piece::to_string
UpperLetters == <<"P", "N", "B", "R", "Q", "K">>
LowerLetters == <<"p", "n", "b", "r", "q", "k">>

to_uppercase(c) ==
    IF \E i \in 1..6 : LowerLetters[i] = c
    THEN UpperLetters[CHOOSE i \in 1..6 : LowerLetters[i] = c]
    ELSE c

to_lowercase(c) ==
    IF \E i \in 1..6 : UpperLetters[i] = c
    THEN LowerLetters[CHOOSE i \in 1..6 : UpperLetters[i] = c]
    ELSE c

\* Vec<String>::join
RECURSIVE join(_, _)
join(strings, sep) ==
    IF Len(strings) = 0 THEN <<>>
    ELSE IF Len(strings) = 1 THEN strings[1]
    ELSE strings[1] \o sep \o join(Tail(strings), sep)

\* a get_piece_string that carries the count of empty files across a piece
get_piece_string_keeping_the_count(square, maybe_side_piece, empty_files) ==
    LET counter_string == IF empty_files = 0 THEN <<>> ELSE usize_to_string(empty_files)
    IN  IF Len(maybe_side_piece) = 0
        THEN [string |-> IF FileOf(square) = 7 THEN usize_to_string(empty_files + 1) ELSE <<>>,
              counter |-> empty_files + 1]
        ELSE IF maybe_side_piece[1] = White
        THEN [string |-> counter_string \o <<to_uppercase(Piece_to_string(maybe_side_piece[2]))>>,
              counter |-> empty_files]
        ELSE [string |-> counter_string \o <<to_lowercase(Piece_to_string(maybe_side_piece[2]))>>,
              counter |-> empty_files]

\* Fen::get_piece_string: the text one square adds to its rank and the new count of empty
\* files; an empty square adds the count only on file h, a piece adds the pending count
\* and its letter and resets the count
get_piece_string(square, maybe_side_piece, empty_files) ==
    LET counter_string == IF empty_files = 0 THEN <<>> ELSE usize_to_string(empty_files)
    IN  IF Len(maybe_side_piece) = 0
        THEN [string |-> IF FileOf(square) = 7 THEN usize_to_string(empty_files + 1) ELSE <<>>,
              counter |-> empty_files + 1]
        ELSE IF maybe_side_piece[1] = White
        THEN [string |-> counter_string \o <<to_uppercase(Piece_to_string(maybe_side_piece[2]))>>,
              counter |-> 0]
        ELSE [string |-> counter_string \o <<to_lowercase(Piece_to_string(maybe_side_piece[2]))>>,
              counter |-> 0]

\* the inner loop of Fen::get_pieces from a file on, joined with ""
RECURSIVE get_pieces_of_rank(_, _, _, _)
get_pieces_of_rank(b, rank, file, empty_files) ==
    IF file > 7 THEN <<>>
    ELSE LET Rest(r) == r.string \o get_pieces_of_rank(b, rank, file + 1, r.counter)
         IN  Rest(get_piece_string(Square(file, rank), Board_get(b, Square(file, rank)), empty_files))

\* Fen::get_pieces: the ranks from 8 down to 1, joined with "/"
get_pieces(b) == join([i \in 1..8 |-> get_pieces_of_rank(b, 8 - i, 0, 0)], <<"/">>)

\* Fen::get_castling
get_castling(b) ==
    LET to_return ==
            (IF b.castling_rights_white_kingside THEN <<"K">> ELSE <<>>)
            \o (IF b.castling_rights_white_queenside THEN <<"Q">> ELSE <<>>)
            \o (IF b.castling_rights_black_kingside THEN <<"k">> ELSE <<>>)
            \o (IF b.castling_rights_black_queenside THEN <<"q">> ELSE <<>>)
    IN  IF Len(to_return) = 0 THEN <<"-">> ELSE to_return

\* Fen::get_en_passant: not implemented, always None
get_en_passant(b) == <<>>

\* Fen::new
Fen_new(b, side, half_moves, full_moves) ==
    [pieces |-> get_pieces(b), side |-> side, castling |-> get_castling(b),
     en_passant |-> get_en_passant(b), half_moves |-> half_moves, full_moves |-> full_moves]

\* Fen::to_string: the six fields joined with " "
Fen_to_string(fen) ==
    join(<<fen.pieces,
           IF fen.side = White THEN <<"w">> ELSE <<"b">>,
           fen.castling,
           IF Len(fen.en_passant) = 0 THEN <<"-">> ELSE Square_to_string(fen.en_passant[1]),
           usize_to_string(fen.half_moves),
           usize_to_string(fen.full_moves)>>, <<" ">>)

\* Board::fen
Board_fen(b, side, half_moves, full_moves) == Fen_to_string(Fen_new(b, side, half_moves, full_moves))

-----------------------------------------------------------------------------
(* Path and ShortestPathCalculator *)

Board_singleton(side, piece, square) == Board_add(Board_empty, side, piece, square)

\* Square::get_color: 0 is Dark, 1 is Light
Square_get_color(s) == (FileOf(s) + RankOf(s)) % 2

Piece_all_non_pawn == <<Knight, Bishop, Rook, Queen, King>>

Path_empty == <<>>

Path_get_ending_square_or_default_if_empty(path, default) ==
    IF Len(path) = 0 THEN default ELSE path[Len(path)][2]

\* Board::make_moves from the i-th move on: each move goes through make_move, whose
\* legality assertion stops the loop; applied counts the moves made before the fault
RECURSIVE make_moves_from(_, _, _)
make_moves_from(b, moves, i) ==
    IF i > Len(moves) THEN [board |-> b, applied |-> Len(moves), fault |-> FALSE]
    ELSE IF ~is_legal_move(b, moves[i]) THEN [board |-> b, applied |-> i - 1, fault |-> TRUE]
    ELSE make_moves_from(make_move(b, moves[i]), moves, i + 1)

make_moves(b, moves) == make_moves_from(b, moves, 1)

\* no calculator has been constructed
NoCalculator == [pc |-> "none"]

\* pc is the position of calculate(): not yet called, in the while loop, returned, or panicked
ShortestPathCalculator_new(b, start, end) ==
    [ board |-> b, starting_position |-> start, ending_position |-> end,
      candidates |-> <<Path_empty>>, results |-> {}, shortest_so_far |-> 99, pc |-> "new" ]

update_shortest_so_far(c, l) ==
    [c EXCEPT !.shortest_so_far = IF l < c.shortest_so_far THEN l ELSE c.shortest_so_far]

\* a check_layer that keeps only the results of the layer it has just checked
check_layer_overwriting(c, head, b, square) ==
    LET Layer(new_candidates) ==
            LET paths == [i \in DOMAIN new_candidates |-> Append(head, new_candidates[i])]
                hits == {i \in DOMAIN new_candidates : new_candidates[i][2] = c.ending_position}
                found == [c EXCEPT !.results = IF hits = {} THEN c.results ELSE {paths[i] : i \in hits}]
                updated == IF hits = {} THEN found ELSE update_shortest_so_far(found, Len(head) + 1)
            IN  [updated EXCEPT !.candidates = c.candidates \o paths]
    IN  Layer(get_legal_moves(b, square))

\* check_layer: every legal move from square extends head; the paths that end on the
\* ending position are results, and every extended path is queued in order
check_layer(c, head, b, square) ==
    LET Layer(new_candidates) ==
            LET paths == [i \in DOMAIN new_candidates |-> Append(head, new_candidates[i])]
                hits == {i \in DOMAIN new_candidates : new_candidates[i][2] = c.ending_position}
                found == [c EXCEPT !.results = c.results \cup {paths[i] : i \in hits}]
                updated == IF hits = {} THEN found ELSE update_shortest_so_far(found, Len(head) + 1)
            IN  [updated EXCEPT !.candidates = c.candidates \o paths]
    IN  Layer(get_legal_moves(b, square))

-----------------------------------------------------------------------------
(* Game (src/src/game.rs): a board, the side to act and the moves made *)

\* no game has been constructed
NoGame == [board |-> Board_empty, next_to_act |-> "none", moves |-> <<>>]

Game_new == [board |-> starting_position, next_to_act |-> White, moves |-> <<>>]

\* Game::make_move after the legality assertion of Board::make_move has passed
Game_make_move(g, m) ==
    [board |-> make_move(g.board, m),
     next_to_act |-> Side_get_opponent(g.next_to_act),
     moves |-> Append(g.moves, m)]

\* str::replace(c, "") for every character c of removed
remove_chars(str, removed) ==
    LET Keep(c) == c \notin removed
    IN  SelectSeq(str, Keep)

\* str::split on a one-character separator
RECURSIVE split(_, _)
split(str, sep) ==
    IF \A i \in 1..Len(str) : str[i] # sep THEN <<str>>
    ELSE LET Cut(i) == <<SubSeq(str, 1, i - 1)>> \o split(SubSeq(str, i + 1, Len(str)), sep)
         IN  Cut(CHOOSE i \in 1..Len(str) : str[i] = sep /\ \A j \in 1..(i - 1) : str[j] # sep)

Move_parse_move_strings(s) == split(remove_chars(s, {"\n", "\t", " ", "x", "+", "#"}), ",")

\* Game::make_moves_from_string from its i-th move string on; a move string that does
\* not parse, or parses to an illegal move, panics: the game is then NoGame
RECURSIVE make_moves_from_string_from(_, _, _, _)
make_moves_from_string_from(g, move_strings, side, i) ==
    IF i > Len(move_strings) THEN g
    ELSE LET Of(parsed) ==
                 IF parsed.tag # "Ok" THEN NoGame
                 ELSE IF ~is_legal_move(g.board, parsed.move) THEN NoGame
                 ELSE make_moves_from_string_from(Game_make_move(g, parsed.move), move_strings,
                                                  Side_get_opponent(side), i + 1)
         IN  Of(try_parse_move(g.board, side, move_strings[i]))

Game_make_moves_from_string(g, s) ==
    make_moves_from_string_from(g, Move_parse_move_strings(s), g.next_to_act, 1)

Game_get_piece_positions(g, piece) ==
    Bitboard_to_squares(get_side_pieces_bitboard(g.board, g.next_to_act, piece))

\* Game::pretty_print_moves replays the moves from the starting position and asks
\* get_move_string for each; TRUE when one of those calls panics
RECURSIVE pretty_print_moves_faults_from(_, _, _)
pretty_print_moves_faults_from(replay_board, moves, i) ==
    /\ i <= Len(moves)
    /\ \/ get_move_string(replay_board, moves[i]).tag = "Panic"
       \/ ~is_legal_move(replay_board, moves[i])
       \/ \E made \in {make_move(replay_board, moves[i])} :
              pretty_print_moves_faults_from(made, moves, i + 1)

Game_pretty_print_moves_faults(g) == pretty_print_moves_faults_from(starting_position, g.moves, 1)

-----------------------------------------------------------------------------
(* Trainer (src/src/trainer.rs) in TrainerMode::Position *)

\* no trainer has been built
NoTrainer == [state |-> "none", requests |-> <<>>, input_source |-> <<>>]

AsciiUppercase ==
    <<"A", "B", "C", "D", "E", "F", "G", "H", "I", "J", "K", "L", "M",
      "N", "O", "P", "Q", "R", "S", "T", "U", "V", "W", "X", "Y", "Z">>
AsciiLowercase ==
    <<"a", "b", "c", "d", "e", "f", "g", "h", "i", "j", "k", "l", "m",
      "n", "o", "p", "q", "r", "s", "t", "u", "v", "w", "x", "y", "z">>

\* String::to_lowercase
String_to_lowercase(str) ==
    [i \in 1..Len(str) |->
        IF \E k \in 1..26 : AsciiUppercase[k] = str[i]
        THEN AsciiLowercase[CHOOSE k \in 1..26 : AsciiUppercase[k] = str[i]]
        ELSE str[i]]

\* Result<Vec<Square>, String>, and the third outcome of a call: a panic
SquaresOk(squares) == [tag |-> "Ok", squares |-> squares]
SquaresErr == [tag |-> "Err", squares |-> <<>>]
SquaresFault == [tag |-> "Panic", squares |-> <<>>]

\* Square::try_parse: a string that is not two characters long is an Err, and
\* File::from_char or Rank::from_char panics on a character that is no file or rank
Square_try_parse(s) ==
    IF Len(s) # 2 THEN SquaresErr
    ELSE IF ~IsFileChar(s[1]) \/ ~IsRankChar(s[2]) THEN SquaresFault
    ELSE SquaresOk(<<Square_from_string(s)>>)

\* Square::squares_from_string: every part is parsed before the first error is looked for
Square_squares_from_string(s) ==
    LET Of(parsing_results) ==
            IF \E i \in DOMAIN parsing_results : parsing_results[i].tag = "Panic" THEN SquaresFault
            ELSE IF \E i \in DOMAIN parsing_results : parsing_results[i].tag = "Err" THEN SquaresErr
            ELSE SquaresOk([i \in DOMAIN parsing_results |-> parsing_results[i].squares[1]])
        Parsed(split_string) == Of([i \in DOMAIN split_string |-> Square_try_parse(split_string[i])])
    IN  Parsed(split(remove_chars(s, {"\n", "\t", " "}), ","))

None_string == <<"n", "o", "n", "e">>

\* TrainerResponseValidator::ListOfSquares: "Ok", "Err" or "Panic"
ListOfSquares_validate(input) ==
    IF String_to_lowercase(input) = None_string THEN "Ok"
    ELSE Square_squares_from_string(input).tag

\* TrainerResponseEvaluator::parse_squares
parse_squares(response) ==
    IF String_to_lowercase(response) = None_string THEN SquaresOk(<<>>)
    ELSE Square_squares_from_string(response)

\* TrainerResponseEvaluator::AreAllPiecePositions(piece) with compare_square_sets:
\* "Ok", "Err" or "Panic"
AreAllPiecePositions_evaluate(g, piece, response) ==
    LET Of(potential_positions_result) ==
            IF potential_positions_result.tag # "Ok" THEN potential_positions_result.tag
            ELSE IF SeqToSet(potential_positions_result.squares) = SeqToSet(Game_get_piece_positions(g, piece))
            THEN "Ok"
            ELSE "Err"
    IN  Of(parse_squares(response))

\* a TrainerRequest of Position mode; response is <<>> for None and <<r>> for Some(r)
TrainerRequest_new(transformer, piece) ==
    [transformer |-> transformer, piece |-> piece, response |-> <<>>]

\* TrainerBuilder::get_requests(TrainerMode::Position): the king first, then the
\* other pieces of Piece::all() in reverse
get_requests ==
    <<TrainerRequest_new("MakeRandomMovesAndEndOnRandomSide", King)>>
        \o [i \in 1..5 |-> TrainerRequest_new("DoNothing", Piece_all[6 - i])]

\* TrainerBuilder::build with an input source Buffer(buffer)
TrainerBuilder_build(buffer) ==
    [state |-> "ReadyToRun", requests |-> get_requests, input_source |-> buffer]

\* the index of the first request without a response, 0 when there is none
get_next_request(t) ==
    IF \A i \in DOMAIN t.requests : Len(t.requests[i].response) # 0 THEN 0
    ELSE CHOOSE i \in DOMAIN t.requests :
             /\ Len(t.requests[i].response) = 0
             /\ \A j \in 1..(i - 1) : Len(t.requests[j].response) # 0

\* the index of the last request with a response, 0 when there is none
last_answered_request(t) ==
    IF \A i \in DOMAIN t.requests : Len(t.requests[i].response) = 0 THEN 0
    ELSE CHOOSE i \in DOMAIN t.requests :
             /\ Len(t.requests[i].response) # 0
             /\ \A j \in (i + 1)..Len(t.requests) : Len(t.requests[j].response) = 0

out_of_prompts(t) == \A i \in DOMAIN t.requests : Len(t.requests[i].response) # 0

\* TrainerInputSource::get_input on a non-empty Buffer (an empty one panics): the last
\* entry is removed from a clone of the buffer, and the buffer itself is stored back
get_input(input_source) ==
    [input |-> input_source[Len(input_source)],
     input_source |-> input_source]

-----------------------------------------------------------------------------
(* The inputs the environment draws from *)

Sq(file, rank) == Square_from_string(<<file, rank>>)

AddInputs ==
    { <<White, King, Sq("e", "1")>>, <<White, Rook, Sq("h", "1")>>, <<White, Rook, Sq("a", "1")>>,
      <<White, Pawn, Sq("e", "2")>>, <<Black, Rook, Sq("a", "2")>>, <<Black, Knight, Sq("e", "3")>>,
      <<Black, King, Sq("e", "8")>>, <<Black, Rook, Sq("h", "8")>>, <<Black, Pawn, Sq("d", "3")>>,
      <<White, King, Sq("e", "2")>>, <<Black, Knight, Sq("f", "3")>> }

MoveInputs ==
    { Move(Sq("e", "1"), Sq("e", "2")), Move(Sq("e", "1"), Sq("g", "1")), Move(Sq("e", "1"), Sq("c", "1")),
      Move(Sq("e", "2"), Sq("g", "1")), Move(Sq("e", "2"), Sq("e", "3")), Move(Sq("e", "2"), Sq("e", "4")),
      Move(Sq("e", "2"), Sq("d", "3")), Move(Sq("h", "1"), Sq("d", "1")), Move(Sq("a", "1"), Sq("d", "1")),
      Move(Sq("a", "2"), Sq("e", "2")), Move(Sq("a", "2"), Sq("a", "1")), Move(Sq("e", "3"), Sq("f", "1")),
      Move(Sq("e", "8"), Sq("g", "8")), Move(Sq("d", "3"), Sq("e", "2")) }

TransformInputs ==
    { Move(Sq("e", "1"), Sq("e", "2")), Move(Sq("a", "1"), Sq("h", "1")), Move(Sq("h", "1"), Sq("e", "1")),
      Move(Sq("a", "2"), Sq("e", "2")), Move(Sq("e", "2"), Sq("e", "2")) }

QuerySquares == { Sq("e", "1"), Sq("e", "2"), Sq("h", "1"), Sq("a", "2") }

ParseInputs ==
    { <<"e", "4">>, <<"e", "d", "3">>, <<"K", "e", "2">>, <<"R", "d", "1">>, <<"R", "h", "d", "1">>,
      <<"O", "-", "O">>, <<"O", "-", "O", "-", "O">>, <<",", "e", "4">>, <<"K", ",", "e", "2">>,
      <<"P", "e", "4">>, <<>> }

\* the pieces of the boards on which piece moves are parsed
MaxParsePieces == 3

ParsePalette ==
    { <<White, Rook, Sq("a", "1")>>, <<White, Rook, Sq("h", "1")>>, <<White, Rook, Sq("d", "4")>>,
      <<White, King, Sq("d", "1")>>, <<Black, Knight, Sq("b", "1")>>, <<White, Knight, Sq("b", "2")>> }

\* Board::empty followed by one add for each piece of a set on distinct squares
RECURSIVE Board_with(_)
Board_with(placed) ==
    IF placed = {} THEN Board_empty
    ELSE LET Added(a) == Board_add(Board_with(placed \ {a}), a[1], a[2], a[3])
         IN  Added(CHOOSE a \in placed : TRUE)

PieceMoveInputs ==
    { <<"R", "d", "1">>, <<"R", "a", "d", "1">>, <<"R", "1", "d", "1">>, <<"R", "d", "d", "1">>,
      <<"R", "d", "4">>, <<"N", "d", "1">>, <<"K", "c", "1">>, <<"R", "4", "d", "1">> }

\* the pieces of the boards on which pawn moves are computed: pawns on and off their
\* starting ranks and on their last ranks, and pieces one and two squares ahead of them
MaxPawnPieces == 3

PawnPalette ==
    { <<White, Pawn, Sq("e", "2")>>, <<Black, Knight, Sq("e", "3")>>, <<Black, Knight, Sq("e", "4")>>,
      <<Black, Pawn, Sq("e", "7")>>, <<White, Knight, Sq("e", "6")>>, <<White, Knight, Sq("e", "5")>>,
      <<White, Pawn, Sq("h", "7")>>, <<White, Pawn, Sq("c", "8")>>, <<Black, Pawn, Sq("d", "1")>> }

\* the moves made on those boards: pawns arriving on their last ranks, by a legal
\* advance or by a transform from anywhere, and pieces moved onto other pieces
PromotionMoves ==
    { Move(Sq("h", "7"), Sq("h", "8")), Move(Sq("e", "2"), Sq("e", "4")),
      Move(Sq("e", "2"), Sq("e", "8")), Move(Sq("e", "7"), Sq("e", "1")),
      Move(Sq("e", "7"), Sq("e", "5")), Move(Sq("e", "6"), Sq("e", "7")),
      Move(Sq("e", "3"), Sq("e", "2")), Move(Sq("e", "3"), Sq("d", "1")),
      Move(Sq("h", "7"), Sq("c", "8")), Move(Sq("e", "5"), Sq("d", "7")) }

\* the pieces of the boards on which attacks are detected: every piece type, pawns of
\* both sides, sliders with and without pieces in their way
MaxAttackPieces == 3

AttackPalette ==
    { <<White, Rook, Sq("a", "1")>>, <<White, Bishop, Sq("c", "1")>>, <<White, Queen, Sq("d", "1")>>,
      <<White, King, Sq("e", "1")>>, <<White, Knight, Sq("g", "1")>>, <<White, Pawn, Sq("e", "2")>>,
      <<White, Pawn, Sq("d", "4")>>, <<Black, Pawn, Sq("e", "5")>>, <<Black, Knight, Sq("f", "3")>>,
      <<Black, Rook, Sq("a", "8")>> }

\* (side, half_moves, full_moves) of a fen call
FenInputs == { <<White, 0, 1>>, <<Black, 12, 34>> }

\* the Vec<Move> arguments of make_moves
MovesInputs ==
    { <<Move(Sq("e", "2"), Sq("e", "4")), Move(Sq("e", "2"), Sq("e", "3"))>>,
      <<Move(Sq("e", "1"), Sq("e", "2")), Move(Sq("e", "2"), Sq("e", "3"))>>,
      <<Move(Sq("h", "1"), Sq("d", "1")), Move(Sq("e", "1"), Sq("g", "1"))>>,
      <<Move(Sq("e", "1"), Sq("g", "1")), Move(Sq("h", "1"), Sq("d", "1"))>>,
      <<Move(Sq("a", "2"), Sq("a", "1")), Move(Sq("a", "2"), Sq("e", "2"))>>,
      <<Move(Sq("e", "1"), Sq("e", "2")), Move(Sq("e", "2"), Sq("e", "3")), Move(Sq("e", "2"), Sq("e", "4"))>> }

\* (piece, start, end) of a get_shortest_paths call: a corner and a central start, ends
\* at distance zero to three, one king journey that is longer, bishop ends of both colours
PathStarts == { Sq("a", "1"), Sq("d", "4") }

PathEnds == { Sq("a", "1"), Sq("b", "3"), Sq("c", "1"), Sq("d", "4"), Sq("e", "6") }

PathInputs ==
    { <<piece, start, end>> : piece \in SeqToSet(Piece_all_non_pawn) \cup {Pawn}, start \in PathStarts, end \in PathEnds }

-----------------------------------------------------------------------------
(* The state machine: one Board under a sequence of calls *)

\* the longest Buffer the trainer is built with
MaxBufferLen == 2

\* the strings a Buffer holds: squares, "none", and strings the validator rejects
InputStrings ==
    { <<"e", "1">>, <<"e", "8">>, <<"e", "1", ",", " ", "d", "1">>,
      <<"N", "o", "n", "e">>, <<"e">>, <<"z", "9">> }

BufferInputs == UNION {[1..n -> InputStrings] : n \in 1..MaxBufferLen}

\* the arguments of TrainerBuilder::with_moves
WithMovesInputs == { <<"e", "4">>, <<"e", "4", ",", " ", "e", "5">> }

\* the most moves a Game is given
MaxGameMoves == 3

\* the moves Game::make_move is called with
GameMoveInputs ==
    { Move(Sq("e", "2"), Sq("e", "4")), Move(Sq("e", "7"), Sq("e", "5")),
      Move(Sq("g", "1"), Sq("f", "3")), Move(Sq("b", "8"), Sq("c", "6")),
      Move(Sq("d", "2"), Sq("d", "4")), Move(Sq("d", "7"), Sq("d", "5")),
      Move(Sq("e", "4"), Sq("d", "5")), Move(Sq("d", "8"), Sq("d", "5")),
      Move(Sq("e", "5"), Sq("d", "4")), Move(Sq("f", "1"), Sq("c", "4")),
      Move(Sq("e", "2"), Sq("e", "5")) }

\* the arguments of Game::make_moves_from_string
MovesFromStringInputs ==
    { <<"e", "4", ",", " ", "e", "5">>, <<"N", "f", "3">>, <<"d", "4", ",", "d", "5">>,
      <<"e", "5">> }

\* the most moves of a random play
MaxPlies == 5

\* the moves a random play chooses among, when they are legal: a check by the bishop
\* on b5 and its answers, and the two-move mate by the queen on h4
PlayMoves ==
    { Move(Sq("e", "2"), Sq("e", "4")), Move(Sq("d", "7"), Sq("d", "5")),
      Move(Sq("f", "1"), Sq("b", "5")), Move(Sq("c", "7"), Sq("c", "6")),
      Move(Sq("c", "8"), Sq("d", "7")), Move(Sq("d", "5"), Sq("e", "4")),
      Move(Sq("b", "5"), Sq("e", "8")), Move(Sq("b", "5"), Sq("d", "7")),
      Move(Sq("e", "8"), Sq("d", "7")), Move(Sq("d", "8"), Sq("d", "7")),
      Move(Sq("f", "2"), Sq("f", "3")), Move(Sq("e", "7"), Sq("e", "5")),
      Move(Sq("g", "2"), Sq("g", "4")), Move(Sq("d", "8"), Sq("h", "4")),
      Move(Sq("h", "4"), Sq("e", "1")), Move(Sq("e", "1"), Sq("f", "2")) }


Call(op, args, result) == [op |-> op, args |-> args, result |-> result]

QueryOps ==
    { "get_transformation", "get_legal_moves", "is_legal_move", "get_checks", "get_captures",
      "try_parse_move", "get_move_string", "is_checkmated", "is_stalemated", "fen",
      "get_vision_directional", "get_diagonal_vision", "get_lateral_vision", "get_queen_vision",
      "get_forward_pawn_moves", "is_attacking", "get_n_defenders", "get_n_attackers" }

\* A behaviour is a sequence of mutating calls on one Board followed by one read-only
\* call, whose arguments and result stay in ret, or ended by a call that panics.
Observed == ret.op \in QueryOps \/ ret.op = "panic"

Init ==
    /\ board \in {Board_empty, starting_position}
    /\ steps = 0
    /\ ret = Call("new", <<>>, <<>>)
    /\ calculator = NoCalculator
    /\ game = NoGame
    /\ trainer = NoTrainer

\* Board::add on an unoccupied square (an occupied one panics)
Add(side, piece, s) ==
    /\ steps < MaxSteps
    /\ ~Observed
    /\ ~is_occupied(board, s)
    /\ board' = Board_add(board, side, piece, s)
    /\ steps' = steps + 1
    /\ ret' = Call("add", <<side, piece, s>>, <<>>)
    /\ UNCHANGED <<calculator, game, trainer>>

\* Board::transform of a move whose source holds a piece (an empty one panics)
Transform(m) ==
    /\ steps < MaxSteps
    /\ ~Observed
    /\ HasPiece(board, m[1])
    /\ board' = Board_transform(board, m)
    /\ steps' = steps + 1
    /\ ret' = Call("transform", m, <<>>)
    /\ UNCHANGED <<calculator, game, trainer>>

\* Board::make_move of a legal move (any other move fails the assertion)
MakeMove(m) ==
    /\ steps < MaxSteps
    /\ ~Observed
    /\ is_legal_move(board, m)
    /\ board' = make_move(board, m)
    /\ steps' = steps + 1
    /\ ret' = Call("make_move", m, <<>>)
    /\ UNCHANGED <<calculator, game, trainer>>

\* a get_transformation that applies the move to the receiver instead of a clone
GetTransformation_in_place(m) ==
    /\ steps <= MaxQuerySteps
    /\ ~Observed
    /\ HasPiece(board, m[1])
    /\ board' = Board_transform(board, m)
    /\ ret' = Call("get_transformation", m, board')
    /\ UNCHANGED <<steps, calculator, game, trainer>>

GetTransformation(m) ==
    /\ steps <= MaxQuerySteps
    /\ ~Observed
    /\ HasPiece(board, m[1])
    /\ ret' = Call("get_transformation", m, get_transformation(board, m))
    /\ UNCHANGED <<board, steps, calculator, game, trainer>>

GetLegalMoves(s) ==
    /\ steps <= MaxQuerySteps
    /\ ~Observed
    /\ HasPiece(board, s)
    /\ ret' = Call("get_legal_moves", s, get_legal_moves(board, s))
    /\ UNCHANGED <<board, steps, calculator, game, trainer>>

\* Board::is_legal_move of a move whose source holds a piece (an empty one panics in get_legal_moves)
IsLegalMove(m) ==
    /\ steps <= MaxQuerySteps
    /\ ~Observed
    /\ HasPiece(board, m[1])
    /\ ret' = Call("is_legal_move", m, is_legal_move(board, m))
    /\ UNCHANGED <<board, steps, calculator, game, trainer>>

GetChecks(side) ==
    /\ steps <= MaxQuerySteps
    /\ ~Observed
    /\ ret' = Call("get_checks", side, get_checks(board, side))
    /\ UNCHANGED <<board, steps, calculator, game, trainer>>

GetCaptures(side) ==
    /\ steps <= MaxQuerySteps
    /\ ~Observed
    /\ ret' = Call("get_captures", side, get_captures(board, side))
    /\ UNCHANGED <<board, steps, calculator, game, trainer>>

TryParseMove(side, str) ==
    /\ steps <= MaxQuerySteps
    /\ ~Observed
    /\ ret' = Call("try_parse_move", <<side, str>>, try_parse_move(board, side, str))
    /\ UNCHANGED <<board, steps, calculator, game, trainer>>

GetMoveString(m) ==
    /\ steps <= MaxQuerySteps
    /\ ~Observed
    /\ HasPiece(board, m[1])
    /\ ret' = Call("get_move_string", m, get_move_string(board, m))
    /\ UNCHANGED <<board, steps, calculator, game, trainer>>

\* Board::fen on a board where get answers for every square (it panics otherwise)
Fen(side, half_moves, full_moves) ==
    /\ steps <= MaxQuerySteps
    /\ ~Observed
    /\ \A s \in Squares : Len(Board_get(board, s)) # 1
    /\ ret' = Call("fen", <<side, half_moves, full_moves>>, Board_fen(board, side, half_moves, full_moves))
    /\ UNCHANGED <<board, steps, calculator, game, trainer>>

\* a make_move that checks legality after it has moved the piece
MakeMoveFault_after_the_move(m) ==
    /\ steps <= MaxQuerySteps
    /\ ~Observed
    /\ ~is_legal_move(board, m)
    /\ board' = IF HasPiece(board, m[1]) THEN force_make_move(board, m) ELSE board
    /\ ret' = Call("panic", <<"make_move", m>>, 0)
    /\ UNCHANGED <<steps, calculator, game, trainer>>

\* Board::make_move of a move that is not legal: the assertion fails (on an empty source
\* get_legal_moves panics inside it) before force_make_move is reached
MakeMoveFault(m) ==
    /\ steps <= MaxQuerySteps
    /\ ~Observed
    /\ ~is_legal_move(board, m)
    /\ ret' = Call("panic", <<"make_move", m>>, 0)
    /\ UNCHANGED <<board, steps, calculator, game, trainer>>

\* Board::make_moves: the moves in order through make_move, up to the first that faults
MakeMoves(moves) ==
    /\ steps <= MaxQuerySteps
    /\ ~Observed
    /\ LET Done(made) ==
               /\ board' = made.board
               /\ steps' = steps + made.applied
               /\ ret' = IF made.fault THEN Call("panic", <<"make_moves", moves>>, made.applied)
                         ELSE Call("make_moves", moves, <<>>)
       IN  Done(make_moves(board, moves))
    /\ UNCHANGED <<calculator, game, trainer>>

\* Board::is_checkmated for a side with exactly one king (any other count fails the assertion)
IsCheckmated(side) ==
    /\ steps <= MaxQuerySteps
    /\ ~Observed
    /\ Cardinality(get_side_pieces_bitboard(board, side, King)) = 1
    /\ ret' = Call("is_checkmated", side, is_checkmated(board, side))
    /\ UNCHANGED <<board, steps, calculator, game, trainer>>

\* Board::is_stalemated for a side with exactly one king (any other count fails the assertion)
IsStalemated(side) ==
    /\ steps <= MaxQuerySteps
    /\ ~Observed
    /\ Cardinality(get_side_pieces_bitboard(board, side, King)) = 1
    /\ ret' = Call("is_stalemated", side, is_stalemated(board, side))
    /\ UNCHANGED <<board, steps, calculator, game, trainer>>

\* a calculate() without the colour test of the bishop
Calculate_without_colour_test ==
    /\ calculator.pc = "new"
    /\ LET start == calculator.starting_position
           end == calculator.ending_position
           Enter(piece) ==
               IF piece = Pawn
               THEN /\ calculator' = [calculator EXCEPT !.pc = "panic"]
                    /\ ret' = Call("get_shortest_paths", <<piece, start, end>>, "panic")
               ELSE IF start = end
               THEN /\ calculator' = [calculator EXCEPT !.results = {Path_empty}, !.pc = "returned"]
                    /\ ret' = Call("get_shortest_paths", <<piece, start, end>>, {Path_empty})
               ELSE /\ calculator' = [calculator EXCEPT !.pc = "loop"]
                    /\ UNCHANGED ret
       IN  Enter(Board_get(calculator.board, start)[2])
    /\ UNCHANGED <<board, steps, game, trainer>>

\* Piece::get_shortest_paths up to the while loop of calculate(): the early returns
Calculate ==
    /\ calculator.pc = "new"
    /\ LET start == calculator.starting_position
           end == calculator.ending_position
           Enter(piece) ==
               IF piece = Pawn
               THEN /\ calculator' = [calculator EXCEPT !.pc = "panic"]
                    /\ ret' = Call("get_shortest_paths", <<piece, start, end>>, "panic")
               ELSE IF piece = Bishop /\ Square_get_color(start) # Square_get_color(end)
               THEN /\ calculator' = [calculator EXCEPT !.pc = "returned"]
                    /\ ret' = Call("get_shortest_paths", <<piece, start, end>>, {})
               ELSE IF start = end
               THEN /\ calculator' = [calculator EXCEPT !.results = {Path_empty}, !.pc = "returned"]
                    /\ ret' = Call("get_shortest_paths", <<piece, start, end>>, {Path_empty})
               ELSE /\ calculator' = [calculator EXCEPT !.pc = "loop"]
                    /\ UNCHANGED ret
       IN  Enter(Board_get(calculator.board, start)[2])
    /\ UNCHANGED <<board, steps, game, trainer>>

\* a loop that never tests the popped candidate against the shortest result
CalculateLoop_without_the_return_test ==
    /\ calculator.pc = "loop"
    /\ LET piece == Board_get(calculator.board, calculator.starting_position)[2]
           args == <<piece, calculator.starting_position, calculator.ending_position>>
           Iterate(next_candidate, popped) ==
               /\ Len(next_candidate) < MaxPathLen
               /\ calculator' =
                      check_layer(popped, next_candidate,
                                  make_moves(calculator.board, next_candidate).board,
                                  Path_get_ending_square_or_default_if_empty(
                                      next_candidate, calculator.starting_position))
               /\ UNCHANGED ret
       IN  IF Len(calculator.candidates) = 0
           THEN /\ calculator' = [calculator EXCEPT !.pc = "panic"]
                /\ ret' = Call("get_shortest_paths", args, "panic")
           ELSE Iterate(Head(calculator.candidates),
                        [calculator EXCEPT !.candidates = Tail(calculator.candidates)])
    /\ steps' = steps + 1
    /\ UNCHANGED <<board, game, trainer>>

\* one iteration of the while loop of calculate(): pop the next candidate, return when
\* it is no shorter than the shortest result, else replay it and check its layer
CalculateLoop ==
    /\ calculator.pc = "loop"
    /\ LET piece == Board_get(calculator.board, calculator.starting_position)[2]
           args == <<piece, calculator.starting_position, calculator.ending_position>>
           Iterate(next_candidate, popped) ==
               IF calculator.results # {} /\ Len(next_candidate) >= calculator.shortest_so_far
               THEN /\ calculator' = [popped EXCEPT !.pc = "returned"]
                    /\ ret' = Call("get_shortest_paths", args, calculator.results)
               ELSE /\ Len(next_candidate) < MaxPathLen
                    /\ calculator' =
                           check_layer(popped, next_candidate,
                                       make_moves(calculator.board, next_candidate).board,
                                       Path_get_ending_square_or_default_if_empty(
                                           next_candidate, calculator.starting_position))
                    /\ UNCHANGED ret
       IN  IF Len(calculator.candidates) = 0
           THEN /\ calculator' = [calculator EXCEPT !.pc = "panic"]
                /\ ret' = Call("get_shortest_paths", args, "panic")
           ELSE Iterate(Head(calculator.candidates),
                        [calculator EXCEPT !.candidates = Tail(calculator.candidates)])
    /\ steps' = steps + 1
    /\ UNCHANGED <<board, game, trainer>>

\* the mutating calls
Next ==
    \/ \E a \in AddInputs : Add(a[1], a[2], a[3])
    \/ \E m \in TransformInputs : Transform(m)
    \/ \E m \in MoveInputs : MakeMove(m)

Spec == Init /\ [][Next]_vars

\* the mutating calls, the calls that panic and the read-only calls
QueryNext ==
    \/ Next
    \/ \E m \in TransformInputs : GetTransformation(m)
    \/ \E s \in QuerySquares : GetLegalMoves(s)
    \/ \E m \in MoveInputs : IsLegalMove(m)
    \/ \E side \in Sides : GetChecks(side)
    \/ \E side \in Sides : GetCaptures(side)
    \/ \E side \in Sides, str \in ParseInputs : TryParseMove(side, str)
    \/ \E m \in MoveInputs : GetMoveString(m)
    \/ \E f \in FenInputs : Fen(f[1], f[2], f[3])
    \/ \E m \in MoveInputs : MakeMoveFault(m)
    \/ \E moves \in MovesInputs : MakeMoves(moves)
    \/ \E side \in Sides : IsCheckmated(side)
    \/ \E side \in Sides : IsStalemated(side)

QuerySpec == Init /\ [][QueryNext]_vars

\* try_parse_move of a piece move on a board of a few added pieces
ParseInit ==
    /\ \E placed \in SUBSET ParsePalette :
           /\ Cardinality(placed) <= MaxParsePieces
           /\ board = Board_with(placed)
    /\ steps = 0
    /\ ret = Call("new", <<>>, <<>>)
    /\ calculator = NoCalculator
    /\ game = NoGame
    /\ trainer = NoTrainer

ParseNext == \E side \in Sides, str \in PieceMoveInputs : TryParseMove(side, str)

ParseSpec == ParseInit /\ [][ParseNext]_vars

\* Board::get_vision_directional and the unions of rays built on it
GetVisionDirectional(s, d) ==
    /\ ~Observed
    /\ ret' = Call("get_vision_directional", <<s, d>>, get_vision_directional(board, s, d))
    /\ UNCHANGED <<board, steps, calculator, game, trainer>>

GetDiagonalVision(s) ==
    /\ ~Observed
    /\ ret' = Call("get_diagonal_vision", s, get_diagonal_vision(board, s))
    /\ UNCHANGED <<board, steps, calculator, game, trainer>>

GetLateralVision(s) ==
    /\ ~Observed
    /\ ret' = Call("get_lateral_vision", s, get_lateral_vision(board, s))
    /\ UNCHANGED <<board, steps, calculator, game, trainer>>

GetQueenVision(s) ==
    /\ ~Observed
    /\ ret' = Call("get_queen_vision", s, get_queen_vision(board, s))
    /\ UNCHANGED <<board, steps, calculator, game, trainer>>

\* the vision functions from every square of a board of a few added pieces
VisionNext ==
    \/ \E s \in Squares, d \in Directions : GetVisionDirectional(s, d)
    \/ \E s \in Squares : GetDiagonalVision(s)
    \/ \E s \in Squares : GetLateralVision(s)
    \/ \E s \in Squares : GetQueenVision(s)

VisionSpec == ParseInit /\ [][VisionNext]_vars

\* pawn moves on a board of a few added pieces
PawnInit ==
    /\ \E placed \in SUBSET PawnPalette :
           /\ Cardinality(placed) <= MaxPawnPieces
           /\ board = Board_with(placed)
    /\ steps = 0
    /\ ret = Call("new", <<>>, <<>>)
    /\ calculator = NoCalculator
    /\ game = NoGame
    /\ trainer = NoTrainer

\* Board::get_forward_pawn_moves for a pawn of the board, as get_legal_moves calls it
GetForwardPawnMoves(s) ==
    /\ ~Observed
    /\ HasPiece(board, s)
    /\ Board_get(board, s)[2] = Pawn
    /\ ret' = Call("get_forward_pawn_moves", <<Board_get(board, s)[1], s>>,
                   get_forward_pawn_moves(board, Board_get(board, s)[1], s))
    /\ UNCHANGED <<board, steps, calculator, game, trainer>>

PawnNext ==
    \/ \E s \in Squares : GetForwardPawnMoves(s)

PawnSpec == PawnInit /\ [][PawnNext]_vars

\* moves on a board of a few added pieces, then the legal moves of a piece
PromotionNext ==
    \/ \E m \in PromotionMoves : Transform(m)
    \/ \E m \in PromotionMoves : MakeMove(m)
    \/ \E s \in Squares : GetLegalMoves(s)

PromotionSpec == PawnInit /\ [][PromotionNext]_vars

\* attack detection on a board of a few added pieces
AttackInit ==
    /\ \E placed \in SUBSET AttackPalette :
           /\ Cardinality(placed) <= MaxAttackPieces
           /\ board = Board_with(placed)
    /\ steps = 0
    /\ ret = Call("new", <<>>, <<>>)
    /\ calculator = NoCalculator
    /\ game = NoGame
    /\ trainer = NoTrainer

IsAttacking(side, s) ==
    /\ ~Observed
    /\ ret' = Call("is_attacking", <<side, s>>, is_attacking(board, side, s))
    /\ UNCHANGED <<board, steps, calculator, game, trainer>>

GetNDefenders(side, s) ==
    /\ ~Observed
    /\ ret' = Call("get_n_defenders", <<side, s>>, get_n_defenders(board, side, s))
    /\ UNCHANGED <<board, steps, calculator, game, trainer>>

GetNAttackers(side, s) ==
    /\ ~Observed
    /\ ret' = Call("get_n_attackers", <<side, s>>, get_n_attackers(board, side, s))
    /\ UNCHANGED <<board, steps, calculator, game, trainer>>

AttackNext ==
    \/ \E side \in Sides, s \in Squares : IsAttacking(side, s)
    \/ \E side \in Sides, s \in Squares : GetNDefenders(side, s)
    \/ \E side \in Sides, s \in Squares : GetNAttackers(side, s)

AttackSpec == AttackInit /\ [][AttackNext]_vars

\* Piece::get_shortest_paths(start, end): a calculator on the singleton board of the piece
PathInit ==
    /\ \E input \in PathInputs :
           /\ board = Board_singleton(White, input[1], input[2])
           /\ calculator = ShortestPathCalculator_new(board, input[2], input[3])
    /\ steps = 0
    /\ ret = Call("new", <<>>, <<>>)
    /\ game = NoGame
    /\ trainer = NoTrainer

PathNext ==
    \/ Calculate
    \/ CalculateLoop

PathSpec == PathInit /\ [][PathNext]_vars

\* calculate() is one sequential call: once entered, its loop keeps iterating
PathLiveSpec == PathSpec /\ WF_vars(PathNext)

-----------------------------------------------------------------------------
(* Trainer::run in Position mode, one iteration of its loop per action *)

\* Trainer::builder(TrainerMode::Position).with_input_source(Buffer(buffer))
\*   .with_moves(moves).build(): the state is ReadyToRun and the game has moves,
\* so the transformer of the first request leaves the game alone
TrainerInit ==
    /\ \E moves \in WithMovesInputs, buffer \in BufferInputs :
           /\ game = Game_make_moves_from_string(Game_new, moves)
           /\ trainer = TrainerBuilder_build(buffer)
    /\ game # NoGame
    /\ board = Board_empty
    /\ steps = 0
    /\ ret = Call("new", <<>>, <<>>)
    /\ calculator = NoCalculator

\* Trainer::emit replaces {moves} by Game::pretty_print_moves, which can panic
emit_faults == Game_pretty_print_moves_faults(game)

RunReadyToRun ==
    /\ trainer.state = "ReadyToRun"
    /\ ret.op # "panic"
    /\ trainer' = [trainer EXCEPT !.state = "Running"]
    /\ ret' = Call("run", <<"ReadyToRun">>, <<>>)
    /\ UNCHANGED <<board, steps, calculator, game>>

\* transform(), prompt(); the random moves of MakeRandomMovesAndEndOnRandomSide on
\* a game without moves are not explored
RunRunning ==
    /\ trainer.state = "Running"
    /\ ret.op # "panic"
    /\ \E request \in {get_next_request(trainer)}, faults \in {emit_faults} :
           IF request = 0 \/ faults
           THEN /\ ret' = Call("panic", <<"run", "Running">>, <<>>)
                /\ UNCHANGED trainer
           ELSE /\ trainer.requests[request].transformer = "MakeRandomMovesAndEndOnRandomSide"
                       => Len(game.moves) # 0
                /\ trainer' = [trainer EXCEPT !.state = "WaitingForInput"]
                /\ ret' = Call("run", <<"Running">>, <<>>)
    /\ UNCHANGED <<board, steps, calculator, game>>

\* get_input(), validate(input), and on Ok evaluate() and the choice of the next state
RunWaitingForInput ==
    /\ trainer.state = "WaitingForInput"
    /\ ret.op # "panic"
    /\ IF Len(trainer.input_source) = 0
       THEN /\ ret' = Call("panic", <<"get_input", "Buffer is empty!">>, <<>>)
            /\ UNCHANGED trainer
       ELSE \E got \in {get_input(trainer.input_source)}, request \in {get_next_request(trainer)},
               faults \in {emit_faults} :
            \E validated \in {ListOfSquares_validate(got.input)},
               read \in {[trainer EXCEPT !.input_source = got.input_source]} :
                IF request = 0 \/ validated = "Panic"
                THEN /\ ret' = Call("panic", <<"run", "validate">>, got.input)
                     /\ trainer' = read
                ELSE IF validated = "Err"
                THEN /\ ret' = IF faults
                               THEN Call("panic", <<"run", "emit">>, got.input)
                               ELSE Call("run", <<"WaitingForInput", "Input error">>, got.input)
                     /\ trainer' = read
                ELSE \E answered \in {[read EXCEPT !.requests[request].response = <<got.input>>]} :
                     \E evaluated \in {last_answered_request(answered)} :
                     \E evaluation \in {AreAllPiecePositions_evaluate(
                                            game, answered.requests[evaluated].piece,
                                            answered.requests[evaluated].response[1])} :
                         IF evaluation = "Panic" \/ faults
                         THEN /\ ret' = Call("panic", <<"run", "evaluate">>, got.input)
                              /\ trainer' = answered
                         ELSE /\ ret' = Call("run", <<"WaitingForInput", evaluation>>, got.input)
                              /\ trainer' =
                                     [answered EXCEPT !.state =
                                         IF evaluation = "Err" \/ out_of_prompts(answered)
                                         THEN "Finished" ELSE "Running"]
    /\ UNCHANGED <<board, steps, calculator, game>>

TrainerNext ==
    \/ RunReadyToRun
    \/ RunRunning
    \/ RunWaitingForInput

TrainerSpec == TrainerInit /\ [][TrainerNext]_vars

\* run() is one sequential loop: while the state is not Finished it keeps iterating
TrainerLiveSpec == TrainerSpec /\ WF_vars(TrainerNext)

-----------------------------------------------------------------------------
(* Game: moves made by the caller *)

GameInit ==
    /\ game = Game_new
    /\ trainer = NoTrainer
    /\ board = Board_empty
    /\ steps = 0
    /\ ret = Call("new", <<>>, <<>>)
    /\ calculator = NoCalculator

\* Game::make_move(m); Board::make_move panics on a move that is not legal
GameMakeMove(m) ==
    /\ Len(game.moves) < MaxGameMoves
    /\ ret.op # "panic"
    /\ IF is_legal_move(game.board, m)
       THEN /\ game' = Game_make_move(game, m)
            /\ ret' = Call("make_move", <<m>>, <<>>)
       ELSE /\ ret' = Call("panic", <<"make_move", m>>, <<>>)
            /\ UNCHANGED game
    /\ UNCHANGED <<board, steps, calculator, trainer>>

\* Game::make_moves_from_string(s); force_parse_move and make_move panic
GameMakeMovesFromString(s) ==
    /\ Len(game.moves) < MaxGameMoves
    /\ ret.op # "panic"
    /\ LET Of(made) ==
               IF made = NoGame
               THEN /\ ret' = Call("panic", <<"make_moves_from_string", s>>, <<>>)
                    /\ UNCHANGED game
               ELSE /\ game' = made
                    /\ ret' = Call("make_moves_from_string", <<s>>, <<>>)
       IN  Of(Game_make_moves_from_string(game, s))
    /\ UNCHANGED <<board, steps, calculator, trainer>>

GameNext ==
    \/ \E m \in GameMoveInputs : GameMakeMove(m)
    \/ \E s \in MovesFromStringInputs : GameMakeMovesFromString(s)

GameSpec == GameInit /\ [][GameNext]_vars

-----------------------------------------------------------------------------
(* Game: random play *)

\* a make_random_move that chooses among the legal moves of both sides
MakeRandomMove_of_either_side ==
    /\ Len(game.moves) < MaxPlies
    /\ ret.op # "panic"
    /\ LET Choose(moves) ==
               IF moves = {}
               THEN /\ ret' = Call("panic", <<"make_random_move", "No legal moves remaining!">>, <<>>)
                    /\ UNCHANGED game
               ELSE \E m \in moves \cap PlayMoves :
                        /\ game' = Game_make_move(game, m)
                        /\ ret' = Call("make_random_move", <<m>>, <<>>)
       IN  Choose(get_legal_moves_for_side(game.board, White)
                      \cup get_legal_moves_for_side(game.board, Black))
    /\ UNCHANGED <<board, steps, calculator, trainer>>

\* Game::make_random_move: one of the legal moves of the side to act, or a panic
\* when there is none
MakeRandomMove ==
    /\ Len(game.moves) < MaxPlies
    /\ ret.op # "panic"
    /\ LET Choose(moves) ==
               IF moves = {}
               THEN /\ ret' = Call("panic", <<"make_random_move", "No legal moves remaining!">>, <<>>)
                    /\ UNCHANGED game
               ELSE \E m \in moves \cap PlayMoves :
                        /\ game' = Game_make_move(game, m)
                        /\ ret' = Call("make_random_move", <<m>>, <<>>)
       IN  Choose(get_legal_moves_for_side(game.board, game.next_to_act))
    /\ UNCHANGED <<board, steps, calculator, trainer>>

\* Game::is_game_over: is_stalemated and is_checkmated of both sides, each under
\* its assertion of exactly one king
IsGameOver ==
    /\ ret.op \notin {"panic", "is_game_over"}
    /\ IF \E s \in Sides : Cardinality(get_side_pieces_bitboard(game.board, s, King)) # 1
       THEN ret' = Call("panic", <<"is_game_over", "one king per side">>, <<>>)
       ELSE ret' = Call("is_game_over", <<>>,
                        \E s \in Sides : is_stalemated(game.board, s) \/ is_checkmated(game.board, s))
    /\ UNCHANGED <<board, steps, calculator, game, trainer>>

PlayNext ==
    \/ MakeRandomMove
    \/ IsGameOver

PlaySpec == GameInit /\ [][PlayNext]_vars

-----------------------------------------------------------------------------
(* Occupancy *)

PieceBitboards(b) == {get_pieces_bitboard(b, p) : p \in Pieces}

OccupancyInvariant(b) ==
    /\ b.white \cap b.black = {}
    /\ \A p \in Pieces, q \in Pieces : p # q => get_pieces_bitboard(b, p) \cap get_pieces_bitboard(b, q) = {}
    /\ pieces(b) = UNION PieceBitboards(b)
    /\ \A s \in Squares : Board_get(b, s) # GetPanic

\* C1: on every board reached by add, transform and make_move, each square is in at most
\* one side bitboard and at most one piece bitboard, it is in a side bitboard exactly
\* when it is in a piece bitboard, and get never panics.
C1_Occupancy == OccupancyInvariant(board)

\* two pieces were added and a transform moved one onto the other
C1_Witness ==
    /\ ret.op = "transform"
    /\ steps = 3
    /\ Cardinality(pieces(board)) = 1
    /\ board # Board_empty

-----------------------------------------------------------------------------
(* Legality *)

\* C2: no move returned by get_legal_moves leaves the mover's own side in check on the
\* board that make_move produces, the rook relocation of a castling move included.
C2_LegalMovesKeepMoverOutOfCheck ==
    \A s \in pieces(board) :
        \A m \in SeqToSet(get_legal_moves(board, s)) :
            ~is_in_check(make_move(board, m), Board_get(board, s)[1])

\* White has castled queenside by make_move while Black has pieces on the board
C2_Witness ==
    /\ ret.op = "make_move"
    /\ ret.args = Castle_get_king_move(Queenside, White)
    /\ Board_get(board, Sq("c", "1")) = <<White, King>>
    /\ Board_get(board, Sq("d", "1")) = <<White, Rook>>
    /\ board.black # {}
    /\ ~is_in_check(board, White)

-----------------------------------------------------------------------------
(* Castling *)

Castles == {Kingside, Queenside}

HomeKingSquare(side) == Square(4, Castle_get_rank(side))

\* the squares the king stands on, crosses and lands on in a castle from its home square
KingPath(castle, side) ==
    IF castle = Kingside
    THEN {Square(4, Castle_get_rank(side)), Square(5, Castle_get_rank(side)), Square(6, Castle_get_rank(side))}
    ELSE {Square(2, Castle_get_rank(side)), Square(3, Castle_get_rank(side)), Square(4, Castle_get_rank(side))}

\* C3: get_castles returns a castle only when the side's king stands on e1 (White) or
\* e8 (Black), so every legal king move to a castle destination that is not adjacent to
\* the king starts on e1/e8 and is Castle::get_king_move(side).
C3_CastleOnlyFromHomeSquare ==
    \A side \in Sides :
        /\ get_castles(board, side) # {} => Board_get(board, HomeKingSquare(side)) = <<side, King>>
        /\ \A k \in get_side_pieces_bitboard(board, side, King) :
               \A m \in SeqToSet(get_legal_moves(board, k)) :
                   (/\ m[2] \in {Castle_get_king_destination(c, side) : c \in Castles}
                    /\ m[2] \notin get_adjacent_vision(k))
                       => \E c \in Castles : m = Castle_get_king_move(c, side)

\* C4: a side in check is offered no castle, and no castle is offered when a square the
\* king stands on, crosses or lands on is attacked by the opponent.
C4_NoCastleOutOfOrThroughCheck ==
    \A side \in Sides :
        /\ is_in_check(board, side) => get_castles(board, side) = {}
        /\ \A c \in get_castles(board, side) :
               \A x \in KingPath(c, side) \cup get_side_pieces_bitboard(board, side, King) :
                   ~is_attacking(board, Side_get_opponent(side), x)

CastlePostcondition(before, after, castle, side) ==
    LET king_move == Castle_get_king_move(castle, side)
        rook_move == Castle_get_rook_move(castle, side)
        touched == {king_move[1], king_move[2], rook_move[1], rook_move[2]}
    IN  /\ Board_get(after, king_move[2]) = <<side, King>>
        /\ Board_get(after, rook_move[2]) = <<side, Rook>>
        /\ Board_get(after, king_move[1]) = <<>>
        /\ Board_get(after, rook_move[1]) = <<>>
        /\ \A q \in Squares \ touched : Board_get(after, q) = Board_get(before, q)

\* C5: make_move of a legal move equal to a castle's king move, with that side's king on
\* its source, leaves the king on the g/c file, a rook of the side on the f/d file, the
\* king's and the rook's source squares empty and every other square as it was.
C5_CastleRelocatesKingAndRook ==
    [][\A side \in Sides, c \in Castles :
          (/\ ret'.op = "make_move"
           /\ steps' = steps + 1
           /\ ret'.args = Castle_get_king_move(c, side)
           /\ Board_get(board, Castle_get_king_move(c, side)[1]) = <<side, King>>)
              => CastlePostcondition(board, board', c, side)]_vars

\* White has castled kingside by make_move
C5_Witness ==
    /\ ret.op = "make_move"
    /\ ret.args = Castle_get_king_move(Kingside, White)
    /\ Board_get(board, Sq("g", "1")) = <<White, King>>
    /\ Board_get(board, Sq("f", "1")) = <<White, Rook>>
    /\ ~is_occupied(board, Sq("e", "1"))
    /\ ~is_occupied(board, Sq("h", "1"))

\* C6: no operation changes the four castling-rights flags: they are all true on every
\* reachable board and the castling field of the FEN is "KQkq", also after a king or a
\* rook has moved.
C6_CastlingRightsNeverChange ==
    /\ board.castling_rights_white_kingside
    /\ board.castling_rights_white_queenside
    /\ board.castling_rights_black_kingside
    /\ board.castling_rights_black_queenside
    /\ Fen_get_castling(board) = <<"K", "Q", "k", "q">>

\* a king has left e1 by make_move or transform and the rights are still there
C6_Witness ==
    /\ ret.op \in {"make_move", "transform"}
    /\ ret.args[1] = Sq("e", "1")
    /\ ret.args[2] # Sq("e", "1")
    /\ Len(Board_get(board, ret.args[2])) = 2
    /\ Board_get(board, ret.args[2])[2] = King
    /\ Fen_get_castling(board) = <<"K", "Q", "k", "q">>

-----------------------------------------------------------------------------
(* Read-only calls *)

\* C7: get_transformation leaves the receiver unchanged and returns the board that
\* transform produces on a copy; get_legal_moves, is_legal_move, get_checks and
\* get_captures, built on it, do not modify the board either.
C7_QueriesLeaveReceiverUnchanged ==
    [][(ret'.op \in QueryOps /\ ret' # ret)
          => /\ board' = board
             /\ ret'.op = "get_transformation" => ret'.result = Board_transform(board, ret'.args)]_vars

\* get_transformation has returned a board that differs from its receiver
C7_Witness ==
    /\ ret.op = "get_transformation"
    /\ ret.result # board
    /\ Board_get(board, ret.args[1]) # <<>>
    /\ Board_get(ret.result, ret.args[1]) = <<>>

-----------------------------------------------------------------------------
(* Notation *)

PieceLetters == {"N", "B", "R", "Q", "K"}

\* a pawn move, pawn capture, piece move, disambiguated piece move or castle keyword
WellFormed(str) ==
    \/ str = <<"O", "-", "O">>
    \/ str = <<"O", "-", "O", "-", "O">>
    \/ Len(str) = 2 /\ IsFileChar(str[1]) /\ IsRankChar(str[2])
    \/ Len(str) = 3 /\ IsFileChar(str[1]) /\ IsFileChar(str[2]) /\ IsRankChar(str[3])
    \/ Len(str) = 3 /\ str[1] \in PieceLetters /\ IsFileChar(str[2]) /\ IsRankChar(str[3])
    \/ /\ Len(str) = 4
       /\ str[1] \in PieceLetters
       /\ IsFileChar(str[2]) \/ IsRankChar(str[2])
       /\ IsFileChar(str[3])
       /\ IsRankChar(str[4])

\* C8: try_parse_move never faults: it returns Ok or Err for every board and string, and
\* Err for every string that is not well formed.
C8_ParseNeverFaults ==
    ret.op = "try_parse_move"
        => /\ ret.result.tag \in {"Ok", "Err"}
           /\ ~WellFormed(ret.args[2]) => ret.result.tag = "Err"

\* C9: for every side and every legal move m of a piece of that side, parsing the string
\* that get_move_string prints for m gives Ok(m) back.
C9_PrintParseRoundTrip ==
    \A side \in Sides :
        \A s \in get_side_bitboard(board, side) :
            \A m \in SeqToSet(get_legal_moves(board, s)) :
                /\ get_move_string(board, m).tag = "Ok"
                /\ try_parse_move(board, side, get_move_string(board, m).str) = Ok(m)

\* C10: whenever try_parse_move(side, s) returns Ok(m), the source of m holds a piece of
\* side and m is a legal move.
C10_ParsedMoveIsLegal ==
    (ret.op = "try_parse_move" /\ ret.result.tag = "Ok")
        => /\ HasPiece(board, ret.result.move[1])
           /\ Board_get(board, ret.result.move[1])[1] = ret.args[1]
           /\ is_legal_move(board, ret.result.move)

-----------------------------------------------------------------------------
(* Shortest paths *)

AbsDiff(a, b) == IF a >= b THEN a - b ELSE b - a

\* the geometry of one move of a non-pawn piece between two squares of an empty board
PieceStep(piece, a, b) ==
    LET Shape(df, dr) ==
            CASE piece = Knight -> {df, dr} = {1, 2}
              [] piece = Bishop -> df = dr /\ df > 0
              [] piece = Rook -> (df = 0) # (dr = 0)
              [] piece = Queen -> (df = dr /\ df > 0) \/ ((df = 0) # (dr = 0))
              [] piece = King -> df <= 1 /\ dr <= 1 /\ df + dr > 0
    IN  Shape(AbsDiff(FileOf(a), FileOf(b)), AbsDiff(RankOf(a), RankOf(b)))

PathEnd(path, start) == IF Len(path) = 0 THEN start ELSE path[Len(path)][2]

\* all sequences of n moves of the piece that chain from start
RECURSIVE ChainedPaths(_, _, _)
ChainedPaths(piece, start, n) ==
    IF n = 0 THEN {<<>>}
    ELSE UNION { {Append(p, Move(PathEnd(p, start), t)) : t \in {t \in Squares : PieceStep(piece, PathEnd(p, start), t)}}
                 : p \in ChainedPaths(piece, start, n - 1) }

\* the chained sequences of the least length n..MaxPathLen that end on end
RECURSIVE MinimalPathsFrom(_, _, _, _)
MinimalPathsFrom(piece, start, end, n) ==
    LET Ending(paths) == IF paths # {} THEN paths ELSE MinimalPathsFrom(piece, start, end, n + 1)
    IN  IF n > MaxPathLen THEN {}
        ELSE Ending({p \in ChainedPaths(piece, start, n) : PathEnd(p, start) = end})

\* C11: get_shortest_paths(start, end) of a non-pawn piece returns exactly the set of the
\* minimum-length sequences of moves of that piece on an empty board that chain from
\* start to end (the one empty path when start = end).
C11_ShortestPathsAreAllMinimalPaths ==
    (ret.op = "get_shortest_paths" /\ calculator.pc = "returned")
        => ret.result = MinimalPathsFrom(ret.args[1], ret.args[2], ret.args[3], 0)

\* a search has returned several paths of three moves
C11_Witness ==
    /\ ret.op = "get_shortest_paths"
    /\ calculator.pc = "returned"
    /\ Cardinality(ret.result) > 1
    /\ \A p \in ret.result : Len(p) = 3

\* the squares a bishop reaches from the squares of reached in any number of moves
RECURSIVE BishopReach(_)
BishopReach(reached) ==
    LET Grown(next) == IF next = reached THEN reached ELSE BishopReach(next)
    IN  Grown(reached \cup {t \in Squares : \E s \in reached : PieceStep(Bishop, s, t)})

OppositeColours(calc) ==
    /\ Board_get(calc.board, calc.starting_position)[2] = Bishop
    /\ Square_get_color(calc.starting_position) # Square_get_color(calc.ending_position)

\* C12: for a bishop whose start and end squares have opposite colours, get_shortest_paths
\* returns the empty set without running the search (no loop iteration, the queue
\* untouched), and no sequence of bishop moves connects such a pair.
C12_BishopOppositeColoursEmptyWithoutSearch ==
    OppositeColours(calculator)
        => /\ calculator.pc \in {"new", "returned"}
           /\ steps = 0
           /\ calculator.candidates = <<Path_empty>>
           /\ calculator.pc = "returned" => ret.result = {}
           /\ \A e \in BishopReach({calculator.starting_position}) :
                  Square_get_color(e) = Square_get_color(calculator.starting_position)

\* the bishop call d4 -> e6 has returned the empty set
C12_Witness ==
    /\ ret.op = "get_shortest_paths"
    /\ ret.args = <<Bishop, Sq("d", "4"), Sq("e", "6")>>
    /\ calculator.pc = "returned"
    /\ ret.result = {}

-----------------------------------------------------------------------------
(* Checkmate and stalemate *)

\* the legal moves of the side that start on the square of its king
KingMoves(b, side) ==
    {m \in get_legal_moves_for_side(b, side) : m[1] \in get_side_pieces_bitboard(b, side, King)}

\* the legal moves of the side that start on another piece than its king
OtherMoves(b, side) == get_legal_moves_for_side(b, side) \ KingMoves(b, side)

\* C13: for a side with exactly one king, is_checkmated is true exactly when the side is
\* in check and its king has no legal move, is_stalemated exactly when the side is not
\* in check and its king has no legal move, whatever the other pieces of the side can
\* do; the two are never true together.
C13_MateAndStalemateLookAtTheKingOnly ==
    /\ ret.op = "is_checkmated"
           => /\ ret.result = (is_in_check(board, ret.args) /\ KingMoves(board, ret.args) = {})
              /\ ~(ret.result /\ is_stalemated(board, ret.args))
    /\ ret.op = "is_stalemated"
           => /\ ret.result = (~is_in_check(board, ret.args) /\ KingMoves(board, ret.args) = {})
              /\ ~(ret.result /\ is_checkmated(board, ret.args))

\* is_checkmated has answered true for a side one of whose other pieces has a legal move
C13_Witness ==
    /\ ret.op = "is_checkmated"
    /\ ret.result
    /\ OtherMoves(board, ret.args) # {}

-----------------------------------------------------------------------------
(* En passant *)

\* C14: en passant is inert: both prior-move slots are None on every reachable board, and
\* no legal move of a pawn changes file onto an unoccupied square.
C14_EnPassantIsInert ==
    /\ board.prior_move_white = None
    /\ board.prior_move_black = None
    /\ \A s \in board.pawns :
           \A m \in SeqToSet(get_legal_moves(board, s)) :
               FileOf(m[2]) # FileOf(s) => is_occupied(board, m[2])

\* the white pawn has made its double step e2-e4 by make_move next to a black pawn
C14_Witness ==
    /\ ret.op = "make_move"
    /\ ret.args = Move(Sq("e", "2"), Sq("e", "4"))
    /\ Board_get(board, Sq("e", "4")) = <<White, Pawn>>
    /\ Board_get(board, Sq("d", "3")) = <<Black, Pawn>>

-----------------------------------------------------------------------------
(* make_move and make_moves *)

\* the board after the first k moves of moves, each made without a legality test
RECURSIVE Replay(_, _, _)
Replay(b, moves, k) == IF k = 0 THEN b ELSE force_make_move(Replay(b, moves, k - 1), moves[k])

\* the indices of the moves that are not legal on the board their predecessors leave
IllegalAt(b, moves) ==
    {i \in DOMAIN moves :
        /\ \A j \in 1..(i - 1) : is_legal_move(Replay(b, moves, j - 1), moves[j])
        /\ ~is_legal_move(Replay(b, moves, i - 1), moves[i])}

\* C15: make_move changes the board only for a legal move; for any other move (an empty
\* source included) it faults with every bitboard as it was, and make_moves stops at the
\* first such move with exactly the earlier moves applied.
C15_MakeMoveFaultsBeforeItModifies ==
    [][/\ ret'.op = "make_move" => is_legal_move(board, ret'.args)
       /\ (ret'.op = "panic" /\ ret.op # "panic" /\ ret'.args[1] = "make_move")
              => (board' = board /\ ~is_legal_move(board, ret'.args[2]))
       /\ (ret'.op = "panic" /\ ret.op # "panic" /\ ret'.args[1] = "make_moves")
              => /\ IllegalAt(board, ret'.args[2]) = {ret'.result + 1}
                 /\ board' = Replay(board, ret'.args[2], ret'.result)
       /\ (ret'.op = "make_moves" /\ steps' # steps)
              => /\ IllegalAt(board, ret'.args) = {}
                 /\ board' = Replay(board, ret'.args, Len(ret'.args))]_vars

\* make_moves has faulted on a later move with the earlier moves applied
C15_Witness ==
    /\ ret.op = "panic"
    /\ ret.args[1] = "make_moves"
    /\ ret.result >= 1
    /\ steps >= 2

-----------------------------------------------------------------------------
(* FEN piece placement *)

\* the text before the first sep
RECURSIVE FirstField(_, _)
FirstField(str, sep) ==
    IF Len(str) = 0 \/ str[1] = sep THEN <<>> ELSE <<str[1]>> \o FirstField(Tail(str), sep)

\* the fields of a text separated by sep
RECURSIVE SplitOn(_, _)
SplitOn(str, sep) ==
    LET Rest(first) ==
            IF Len(first) = Len(str) THEN <<first>>
            ELSE <<first>> \o SplitOn(SubSeq(str, Len(first) + 2, Len(str)), sep)
    IN  Rest(FirstField(str, sep))

IsDigit(c) == \E i \in 1..10 : DigitChars[i] = c
DigitValue(c) == (CHOOSE i \in 1..10 : DigitChars[i] = c) - 1

\* the squares of one rank a segment describes, file a first: <<>> for each square a
\* digit skips and <<side, piece>> for a letter
RECURSIVE DecodeSegment(_)
DecodeSegment(seg) ==
    IF Len(seg) = 0 THEN <<>>
    ELSE IF IsDigit(seg[1])
    THEN [i \in 1..DigitValue(seg[1]) |-> <<>>] \o DecodeSegment(Tail(seg))
    ELSE IF \E i \in 1..6 : UpperLetters[i] = seg[1]
    THEN <<(<<White, Piece_from_char(seg[1])>>)>> \o DecodeSegment(Tail(seg))
    ELSE IF \E i \in 1..6 : LowerLetters[i] = seg[1]
    THEN <<(<<Black, Piece_from_char(UpperLetters[CHOOSE i \in 1..6 : LowerLetters[i] = seg[1]])>>)>>
         \o DecodeSegment(Tail(seg))
    ELSE <<(<<"?">>)>> \o DecodeSegment(Tail(seg))

NoAdjacentDigits(seg) == \A i \in 1..(Len(seg) - 1) : ~(IsDigit(seg[i]) /\ IsDigit(seg[i + 1]))

PlacementDescribes(b, placement) ==
    LET Of(segments) ==
            /\ Len(segments) = 8
            /\ \A i \in 1..8 :
                  /\ NoAdjacentDigits(segments[i])
                  /\ Len(DecodeSegment(segments[i])) = 8
                  /\ \A file \in 0..7 :
                        DecodeSegment(segments[i])[file + 1] = Board_get(b, Square(file, 8 - i))
    IN  Of(SplitOn(placement, "/"))

StartingPlacement ==
    <<"r", "n", "b", "q", "k", "b", "n", "r", "/", "p", "p", "p", "p", "p", "p", "p", "p", "/",
      "8", "/", "8", "/", "8", "/", "8", "/",
      "P", "P", "P", "P", "P", "P", "P", "P", "/", "R", "N", "B", "Q", "K", "B", "N", "R">>

\* C16: the piece-placement field of fen() has 8 rank segments from rank 8 down to rank 1,
\* each accounting for exactly 8 squares with no two digits adjacent, and decoding it
\* (uppercase White, lowercase Black, a digit that many empty squares) gives get(square)
\* on all 64 squares; the starting position gives rnbqkbnr/pppppppp/8/8/8/8/PPPPPPPP/RNBQKBNR.
C16_FenPlacementDecodesToTheBoard ==
    ret.op = "fen" =>
        /\ PlacementDescribes(board, FirstField(ret.result, " "))
        /\ board = starting_position => FirstField(ret.result, " ") = StartingPlacement

\* fen was called on a board whose ranks mix pieces with empty runs of different lengths
C16_Witness ==
    /\ ret.op = "fen"
    /\ \E seg \in SeqToSet(SplitOn(FirstField(ret.result, " "), "/")) :
          /\ \E i \in 1..Len(seg) : IsDigit(seg[i]) /\ DigitValue(seg[i]) < 8
          /\ \E i \in 1..(Len(seg) - 1) : ~IsDigit(seg[i]) /\ IsDigit(seg[i + 1])
          /\ \E i \in 1..(Len(seg) - 1) : IsDigit(seg[i]) /\ ~IsDigit(seg[i + 1])

-----------------------------------------------------------------------------
(* Disambiguation in get_move_string *)

\* what a non-pawn move prints when its piece is one of several candidates: the file of
\* its own source if no other candidate stands on it, else the rank of its own source if
\* no other candidate stands on it, else nothing
DisambiguatedBySource(piece, candidates, m) ==
    IF \A c \in candidates \ {m[1]} : FileOf(c) # FileOf(m[1])
    THEN Printed(<<Piece_to_string(piece), File_to_string(FileOf(m[1]))>> \o Square_to_string(m[2]))
    ELSE IF \A c \in candidates \ {m[1]} : RankOf(c) # RankOf(m[1])
    THEN Printed(<<Piece_to_string(piece), Rank_to_string(RankOf(m[1]))>> \o Square_to_string(m[2]))
    ELSE PrintFault

\* C17: for a non-pawn move m whose destination more than one of the side's pieces of that
\* type can reach, get_move_string prints the letter, the file of m's own source (the rank
\* when another candidate shares the file, a failure when one shares the rank too) and
\* the destination, so that the file or rank printed is that of the piece m moves.
C17_DisambiguatesWithTheMovedPiece ==
    ret.op = "get_move_string" =>
        LET Of(sp, m) ==
                LET Among(candidates) ==
                        (sp[2] # Pawn /\ Cardinality(candidates) > 1 /\ m[1] \in candidates)
                            => ret.result = DisambiguatedBySource(sp[2], candidates, m)
                IN  Among(get_potential_sources(board, sp[1], sp[2], m[2]))
        IN  Of(Board_get(board, ret.args[1]), ret.args)

-----------------------------------------------------------------------------
(* get_move_string on legal moves *)

\* another candidate shares the file of the source of m and another one shares its rank
NeedsFileAndRank(b, m) ==
    LET Of(sp) ==
            LET Among(candidates) ==
                    /\ sp[2] # Pawn
                    /\ \E c \in candidates \ {m[1]} : FileOf(c) = FileOf(m[1])
                    /\ \E c \in candidates \ {m[1]} : RankOf(c) = RankOf(m[1])
            IN  Among(get_potential_sources(b, sp[1], sp[2], m[2]))
    IN  Of(Board_get(b, m[1]))

\* C18: get_move_string returns a string for every legal move, the king moves of a castle
\* (e1-g1, e1-c1, e8-g8, e8-c8) included, except when both the file and the rank of the
\* source would be needed to tell it from the other candidates.
C18_EveryLegalMoveHasAString ==
    (ret.op = "get_move_string" /\ is_legal_move(board, ret.args) /\ ~NeedsFileAndRank(board, ret.args))
        => ret.result.tag = "Ok"

-----------------------------------------------------------------------------
(* Plain pawn advances *)

\* the square k ranks behind s for side, NoSquare off the board
Behind(side, s, k) ==
    LET rank == IF side = White THEN RankOf(s) - k ELSE RankOf(s) + k
    IN  IF rank \in 0..7 THEN Square(FileOf(s), rank) ELSE NoSquare

HoldsPawnOf(b, side, s) == s # NoSquare /\ Board_get(b, s) = <<side, Pawn>>

\* the source of a plain advance: the side's pawn one square behind the destination, else
\* its pawn two squares behind when the square between is empty
AdvanceSource(b, side, destination) ==
    IF HoldsPawnOf(b, side, Behind(side, destination, 1)) THEN Behind(side, destination, 1)
    ELSE IF /\ Behind(side, destination, 1) # NoSquare
            /\ ~is_occupied(b, Behind(side, destination, 1))
            /\ HoldsPawnOf(b, side, Behind(side, destination, 2))
    THEN Behind(side, destination, 2)
    ELSE NoSquare

\* C19: for a plain pawn advance (file and rank) onto an unoccupied square, try_parse_move
\* returns the side's pawn one square behind the destination if there is one, the side's
\* pawn two squares behind only if the square one behind is empty, and Err when the square
\* one behind holds any other piece or no friendly pawn is found.
C19_AdvanceDoesNotJumpOverAPiece ==
    (ret.op = "try_parse_move" /\ FORWARD_PAWN_MOVE(ret.args[2]))
        => LET Of(side, destination) ==
                   ~is_occupied(board, destination)
                       => ret.result = IF AdvanceSource(board, side, destination) = NoSquare THEN Err
                                       ELSE Ok(Move(AdvanceSource(board, side, destination), destination))
           IN  Of(ret.args[1], Square(File_from_char(ret.args[2][1]), Rank_from_char(ret.args[2][2])))

-----------------------------------------------------------------------------
(* Candidate sources of a piece move *)

Sign(n) == IF n > 0 THEN 1 ELSE IF n < 0 THEN 0 - 1 ELSE 0

\* the squares strictly between two squares of one file, rank or diagonal
Between(a, d) ==
    LET n == IF FileOf(a) = FileOf(d) THEN AbsDiff(RankOf(a), RankOf(d)) ELSE AbsDiff(FileOf(a), FileOf(d))
    IN  {Square(FileOf(a) + k * Sign(FileOf(d) - FileOf(a)), RankOf(a) + k * Sign(RankOf(d) - RankOf(a))) :
            k \in 1..(n - 1)}

\* a piece of that type standing on a sees d
Reaches(b, piece, a, d) ==
    LET df == AbsDiff(FileOf(a), FileOf(d))
        dr == AbsDiff(RankOf(a), RankOf(d))
        clear == \A s \in Between(a, d) : ~is_occupied(b, s)
        lateral == (df = 0 \/ dr = 0) /\ clear
        diagonal == df = dr /\ clear
    IN  /\ a # d
        /\ CASE piece = Knight -> {df, dr} = {1, 2}
             [] piece = King -> df <= 1 /\ dr <= 1
             [] piece = Rook -> lateral
             [] piece = Bishop -> diagonal
             [] piece = Queen -> lateral \/ diagonal

\* the candidates of a piece-move string: the side's pieces of the type that see the
\* destination, on the named file or rank for the disambiguated form
Candidates(b, side, str) ==
    LET destination == Square(File_from_char(str[Len(str) - 1]), Rank_from_char(str[Len(str)]))
    IN  {a \in Squares :
            /\ Board_get(b, a) = <<side, Piece_from_char(str[1])>>
            /\ Reaches(b, Piece_from_char(str[1]), a, destination)
            /\ Len(str) = 4 =>
                  IF IsFileChar(str[2]) THEN FileOf(a) = File_from_char(str[2])
                  ELSE RankOf(a) = Rank_from_char(str[2])}

\* the first square of a set in file-major, rank-minor order
FirstByFile(squares) ==
    CHOOSE a \in squares : \A c \in squares \ {a} :
        FileOf(a) < FileOf(c) \/ (FileOf(a) = FileOf(c) /\ RankOf(a) < RankOf(c))

IsPieceMoveString(str) ==
    /\ Len(str) \in {3, 4}
    /\ str[1] \in PieceLetters
    /\ IsFileChar(str[Len(str) - 1]) /\ IsRankChar(str[Len(str)])
    /\ Len(str) = 4 => (IsFileChar(str[2]) \/ IsRankChar(str[2]))

\* C20: for a piece-move string, with C the side's pieces of the type whose vision reaches
\* the destination (on the named file or rank for the disambiguated form), try_parse_move
\* returns Err when the destination holds a friendly piece, Err when C is empty, Ok with
\* the source when C has one square, Ok with the first square of C in file-major,
\* rank-minor order when C has two, and Err when C has more than two.
C20_TwoCandidatesResolveToTheFirst ==
    (ret.op = "try_parse_move" /\ IsPieceMoveString(ret.args[2]))
        => LET Of(destination, candidates) ==
                   ret.result =
                       IF destination \in get_side_bitboard(board, ret.args[1]) THEN Err
                       ELSE IF Cardinality(candidates) \in {1, 2}
                       THEN Ok(Move(FirstByFile(candidates), destination))
                       ELSE Err
           IN  Of(Square(File_from_char(ret.args[2][Len(ret.args[2]) - 1]),
                         Rank_from_char(ret.args[2][Len(ret.args[2])])),
                  Candidates(board, ret.args[1], ret.args[2]))

\* a piece move with two candidates was parsed and resolved to the first of them
C20_Witness ==
    /\ ret.op = "try_parse_move"
    /\ IsPieceMoveString(ret.args[2])
    /\ Cardinality(Candidates(board, ret.args[1], ret.args[2])) = 2
    /\ ret.result.tag = "Ok"
    /\ ret.result.move[1] = FirstByFile(Candidates(board, ret.args[1], ret.args[2]))

-----------------------------------------------------------------------------
(* Termination of the shortest-path search *)

CalculatorPiece == Board_get(calculator.board, calculator.starting_position)[2]

\* the search has to go no deeper than MaxPathLen moves
WithinMaxPathLen ==
    \/ CalculatorPiece = Pawn
    \/ OppositeColours(calculator)
    \/ MinimalPathsFrom(CalculatorPiece, calculator.starting_position, calculator.ending_position, 0) # {}

\* C21: calculate() terminates for every non-pawn piece and pair of squares; it returns a
\* non-empty set except for a bishop with start and end of opposite colours, it never
\* runs out of candidates, and for a pawn it faults without searching.
C21_CalculateTerminatesWithPaths ==
    /\ [](calculator.pc = "panic" => (CalculatorPiece = Pawn /\ steps = 0))
    /\ [](CalculatorPiece = Pawn => calculator.pc \in {"new", "panic"})
    /\ [](calculator.pc = "loop" => Len(calculator.candidates) > 0)
    /\ [](calculator.pc = "returned" => ((calculator.results = {}) <=> OppositeColours(calculator)))
    /\ (calculator.pc = "new" /\ WithinMaxPathLen) ~> (calculator.pc \in {"returned", "panic"})

\* a search of several iterations has returned its paths
C21_Witness ==
    /\ calculator.pc = "returned"
    /\ steps > 3
    /\ calculator.results # {}
    /\ ret.result = calculator.results

-----------------------------------------------------------------------------
(* Rays *)

DirectionFileStep(d) ==
    IF d \in {"Left", "UpLeft", "DownLeft"} THEN 0 - 1 ELSE IF d \in {"Right", "UpRight", "DownRight"} THEN 1 ELSE 0

DirectionRankStep(d) ==
    IF d \in {"Down", "DownLeft", "DownRight"} THEN 0 - 1 ELSE IF d \in {"Up", "UpLeft", "UpRight"} THEN 1 ELSE 0

\* the k for which the square k steps from s in direction d is on the board
StepsOnBoard(s, d) ==
    {k \in 1..7 : /\ FileOf(s) + k * DirectionFileStep(d) \in 0..7
                  /\ RankOf(s) + k * DirectionRankStep(d) \in 0..7}

StepFrom(s, d, k) == Square(FileOf(s) + k * DirectionFileStep(d), RankOf(s) + k * DirectionRankStep(d))

\* the squares stepped through from s in direction d, up to and including the first
\* occupied one
Ray(b, s, d) ==
    {StepFrom(s, d, k) : k \in {k \in StepsOnBoard(s, d) : \A j \in 1..(k - 1) : ~is_occupied(b, StepFrom(s, d, j))}}

Rays(b, s, directions) == UNION {Ray(b, s, d) : d \in directions}

\* C22: get_vision_directional returns exactly the squares stepped through from the square
\* in the direction up to and including the first occupied square (up to the edge if there
\* is none), never the starting square; diagonal, lateral and queen vision are the unions
\* of the four diagonal, the four lateral and all eight rays.
C22_VisionStopsOnTheFirstOccupiedSquare ==
    /\ ret.op = "get_vision_directional"
           => /\ ret.result = Ray(board, ret.args[1], ret.args[2])
              /\ ret.args[1] \notin ret.result
    /\ ret.op = "get_diagonal_vision" => ret.result = Rays(board, ret.args, Direction_diagonals)
    /\ ret.op = "get_lateral_vision" => ret.result = Rays(board, ret.args, Directions \ Direction_diagonals)
    /\ ret.op = "get_queen_vision" => ret.result = Rays(board, ret.args, Directions)

\* a ray was asked for that ends on a piece with further squares behind it
C22_Witness ==
    /\ ret.op = "get_vision_directional"
    /\ Cardinality(ret.result) > 1
    /\ \E t \in ret.result : is_occupied(board, t) /\ Square_get_adjacent(t, ret.args[2]) # NoSquare

-----------------------------------------------------------------------------
(* Forward pawn moves *)

\* the square k ranks ahead of s for side, NoSquare off the board
Ahead(side, s, k) == Behind(side, s, 0 - k)

OnStartingRank(side, s) == RankOf(s) = IF side = White THEN 1 ELSE 6

Free(b, s) == s # NoSquare /\ ~is_occupied(b, s)

\* C23: the forward destinations of a pawn are the square directly ahead iff it is
\* unoccupied, and the square two ahead iff the pawn stands on its starting rank (rank 2
\* for White, rank 7 for Black) and both squares ahead are unoccupied; it never advances
\* onto or over an occupied square.
C23_PawnAdvancesOnlyThroughEmptySquares ==
    ret.op = "get_forward_pawn_moves" =>
        LET Of(side, s) ==
                /\ \A t \in Squares :
                      t \in ret.result <=>
                          \/ t = Ahead(side, s, 1) /\ Free(board, t)
                          \/ /\ t = Ahead(side, s, 2)
                             /\ OnStartingRank(side, s)
                             /\ Free(board, Ahead(side, s, 1))
                             /\ Free(board, t)
                /\ \A t \in ret.result : \A u \in Between(s, t) \cup {t} : ~is_occupied(board, u)
        IN  Of(ret.args[1], ret.args[2])

\* a pawn on its starting rank has a piece two squares ahead and advances one square only
C23_Witness ==
    /\ ret.op = "get_forward_pawn_moves"
    /\ OnStartingRank(ret.args[1], ret.args[2])
    /\ is_occupied(board, Ahead(ret.args[1], ret.args[2], 2))
    /\ ret.result = {Ahead(ret.args[1], ret.args[2], 1)}

-----------------------------------------------------------------------------
(* The effect of transform *)

PieceCount(b) == Cardinality(pieces(b))

\* a transform step of a move with distinct squares from a board that satisfies the
\* occupancy invariant
TransformStep ==
    /\ ret'.op = "transform"
    /\ steps' = steps + 1
    /\ ret'.args[1] # ret'.args[2]
    /\ OccupancyInvariant(board)

\* the source is emptied, the destination holds the mover, every other square is as before
MovesOnePiece(b, after, m) ==
    /\ Board_get(after, m[1]) = <<>>
    /\ Board_get(after, m[2]) = Board_get(b, m[1])
    /\ \A q \in Squares \ {m[1], m[2]} : Board_get(after, q) = Board_get(b, q)

HoldsOpponentOf(b, s, mover) == HasPiece(b, s) /\ Board_get(b, s)[1] # Board_get(b, mover)[1]

\* C24 as stated: after transform(m) the source is empty, the destination holds the mover
\* whatever stood there, every other square is unchanged, and the piece count drops by
\* exactly one when an opposing piece stood on the destination and is unchanged otherwise.
C24_TransformCountsCaptures ==
    [][TransformStep =>
          /\ MovesOnePiece(board, board', ret'.args)
          /\ PieceCount(board') =
                 PieceCount(board) - (IF HoldsOpponentOf(board, ret'.args[2], ret'.args[1]) THEN 1 ELSE 0)]_vars

\* C24 amended: after transform(m) the source is empty, the destination holds the mover
\* whatever stood there, every other square is unchanged, and the piece count drops by
\* exactly one when any piece, opposing or friendly, stood on the destination and is
\* unchanged otherwise.
C24_TransformMovesOnePiece ==
    [][TransformStep =>
          /\ MovesOnePiece(board, board', ret'.args)
          /\ PieceCount(board') =
                 PieceCount(board) - (IF is_occupied(board, ret'.args[2]) THEN 1 ELSE 0)]_vars

\* the first call on the starting position was the transform of the a1 rook onto the h1
\* rook of its own side: the mover stands on h1 and 31 pieces are left
C24_Witness ==
    /\ ret.op = "transform"
    /\ ret.args = Move(Sq("a", "1"), Sq("h", "1"))
    /\ steps = 1
    /\ Board_get(board, Sq("h", "1")) = <<White, Rook>>
    /\ Board_get(board, Sq("a", "1")) = <<>>
    /\ PieceCount(board) = 31

-----------------------------------------------------------------------------
(* Destinations of legal moves *)

\* C25: no move returned by get_legal_moves, for any piece of the board (king moves and
\* castle destinations included), ends on a square held by the mover's own side or on its
\* own source.
C25_LegalMovesAvoidOwnPieces ==
    \A side \in Sides :
        \A s \in get_side_bitboard(board, side) :
            \A m \in SeqToSet(get_legal_moves(board, s)) :
                /\ m[1] = s
                /\ m[2] # s
                /\ m[2] \notin get_side_bitboard(board, side)

\* after a move, a rook of the board sees a piece of its own side and has legal moves,
\* and a king has a castle among its legal moves
C25_Witness ==
    /\ ret.op = "make_move"
    /\ \E s \in board.rooks :
          /\ get_lateral_vision(board, s) \cap get_side_bitboard(board, Board_get(board, s)[1]) # {}
          /\ Len(get_legal_moves(board, s)) > 0
    /\ \E s \in board.kings :
          \E m \in SeqToSet(get_legal_moves(board, s)) : AbsDiff(FileOf(m[1]), FileOf(m[2])) = 2

-----------------------------------------------------------------------------
(* Attack detection and vision *)

\* the squares of the side whose piece attacks q by the geometry of its type: a pawn the
\* two squares diagonally ahead of it, a leaper its pattern, a slider along a clear line
Attackers(b, side, q) ==
    {p \in Squares :
        /\ HasPiece(b, p)
        /\ Board_get(b, p)[1] = side
        /\ IF Board_get(b, p)[2] = Pawn
           THEN /\ AbsDiff(FileOf(p), FileOf(q)) = 1
                /\ RankOf(q) = RankOf(p) + (IF side = White THEN 1 ELSE 0 - 1)
           ELSE Reaches(b, Board_get(b, p)[2], p, q)}

\* C26: is_attacking(s, q) is true exactly when some piece of s has has_vision onto q,
\* that is exactly when get_n_defenders(s, q) > 0 (get_n_attackers counts the same for
\* the other side); pawns see their two forward diagonals only.
C26_AttackAgreesWithVision ==
    /\ ret.op = "is_attacking"
           => /\ ret.result = (get_n_defenders(board, ret.args[1], ret.args[2]) > 0)
              /\ ret.result = (\E p \in get_side_bitboard(board, ret.args[1]) : has_vision(board, p, ret.args[2]))
              /\ ret.result = (Attackers(board, ret.args[1], ret.args[2]) # {})
    /\ ret.op = "get_n_defenders"
           => /\ ret.result = Cardinality(Attackers(board, ret.args[1], ret.args[2]))
              /\ (ret.result > 0) = is_attacking(board, ret.args[1], ret.args[2])
    /\ ret.op = "get_n_attackers"
           => /\ ret.result = Cardinality(Attackers(board, Side_get_opponent(ret.args[1]), ret.args[2]))
              /\ (ret.result > 0) = is_attacking(board, Side_get_opponent(ret.args[1]), ret.args[2])

\* a square is attacked by a pawn only, and the square behind that pawn is not attacked
C26_Witness ==
    /\ ret.op = "is_attacking"
    /\ ret.result = TRUE
    /\ \A p \in Attackers(board, ret.args[1], ret.args[2]) : Board_get(board, p)[2] = Pawn
    /\ \E p \in Attackers(board, ret.args[1], ret.args[2]) :
          ~is_attacking(board, ret.args[1], Square(FileOf(ret.args[2]), 2 * RankOf(p) - RankOf(ret.args[2])))

-----------------------------------------------------------------------------
(* Termination of Trainer::run *)

\* C27: a trainer built in state ReadyToRun with a non-empty Buffer eventually
\* reaches the state Finished, whatever strings the buffer holds: run() never
\* stays in WaitingForInput forever.
C27_RunReachesFinished ==
    (trainer.state = "ReadyToRun" /\ Len(trainer.input_source) # 0)
        ~> (trainer.state = "Finished")

-----------------------------------------------------------------------------
(* Turn order of a Game *)

\* the side of the piece that the i-th move moved, replaying the moves from b
RECURSIVE MoverOf(_, _, _)
MoverOf(b, moves, i) ==
    IF i = 1 THEN Board_get(b, moves[1][1])[1]
    ELSE MoverOf(make_move(b, moves[1]), Tail(moves), i - 1)

\* C28: in a Game started with Game::new() every move made moved a piece of the
\* side that was next to act: the pieces moved alternate White, Black, White, ...,
\* and next_to_act is White exactly when the number of moves made is even.
C28_TurnOrderIsEnforced ==
    /\ (game.next_to_act = White) <=> (Len(game.moves) % 2 = 0)
    /\ \A i \in 1..Len(game.moves) :
           MoverOf(starting_position, game.moves, i) = (IF i % 2 = 1 THEN White ELSE Black)

-----------------------------------------------------------------------------
(* Kings in a random play *)

Kings(b, side) == get_side_pieces_bitboard(b, side, King)

\* the side to act before the last move was in check
LastMoveAnsweredACheck ==
    /\ Len(game.moves) >= 1
    /\ is_in_check(Replay(starting_position, game.moves, Len(game.moves) - 1),
                   Side_get_opponent(game.next_to_act))

\* C29: in a play from the starting position in which each move is a legal move of
\* the side to act, as make_random_move chooses it, every board has exactly one
\* king per side, and is_game_over never fails the one-king assertion of
\* is_checkmated and is_stalemated.
C29_LegalPlayKeepsOneKingPerSide ==
    /\ \A side \in Sides : Cardinality(Kings(game.board, side)) = 1
    /\ ~(ret.op = "panic" /\ ret.args[1] = "is_game_over")

\* a check was given and answered by a legal move, and is_game_over has been asked
C29_Witness ==
    /\ ret.op = "is_game_over"
    /\ LastMoveAnsweredACheck
    /\ \A side \in Sides : Cardinality(Kings(game.board, side)) = 1

-----------------------------------------------------------------------------
(* No promotion *)

LastRank(side) == IF side = White THEN 7 ELSE 0

\* a pawn of the board stands on s, on the last rank of its side
PawnOnLastRank(b, s) ==
    /\ HasPiece(b, s)
    /\ Board_get(b, s)[2] = Pawn
    /\ RankOf(s) = LastRank(Board_get(b, s)[1])

\* C30: after make_move or transform the moved piece stands on the destination with
\* the type (and side) it had on its source square, so a pawn that reaches its last
\* rank stays a pawn; and get_legal_moves for a pawn on its last rank is empty, with
\* no two-step lookup off the board (the pawn is not on its starting rank).
C30_MovesKeepThePieceType ==
    /\ [][ret'.op \in {"transform", "make_move"} /\ ret'.args[1] # ret'.args[2]
             => Board_get(board', ret'.args[2]) = Board_get(board, ret'.args[1])]_vars
    /\ [](ret.op = "get_legal_moves" /\ PawnOnLastRank(board, ret.args)
             => /\ ret.result = <<>>
                /\ RankOf(ret.args) # Rank_first_pawn_move(Board_get(board, ret.args)[1]))

\* a white pawn has advanced from h7 to h8, is still a pawn, and has no legal move
C30_Witness ==
    /\ ret.op = "get_legal_moves"
    /\ ret.args = Sq("h", "8")
    /\ steps >= 1
    /\ Board_get(board, Sq("h", "8")) = <<White, Pawn>>
    /\ ret.result = <<>>

====
